---- MODULE Spec2Model ----
(***************************************************************************)
(* visual-scout: frame sampling, novelty filtering and grid composition.   *)
(*                                                                         *)
(* The model follows two commands of the package:                          *)
(*   - main_generate_grids_from_media: the streaming generator, one media  *)
(*     file after the other (generate_grids_from_source.py);               *)
(*   - main_extract_frames followed by main_generate_grids: per-file       *)
(*     pipelines in a process pool that write frame files                  *)
(*     (extract_frames.py), then create_grids_from_frames over the frame   *)
(*     folders (generate_grids.py).                                        *)
(* Besides these, get_image_files is called directly on folders of frame   *)
(* names (utils/video_utils.py).                                           *)
(*                                                                         *)
(* Text (file names, timestamps) is a sequence of one-character strings.   *)
(* A decoded frame is [file, id, px, size]: the input file and the frame   *)
(* index it was decoded from, its luminance content and its pixel size.    *)
(* SSIM scores and thresholds are scaled by 100, frame rates are in        *)
(* hundredths of a frame per second.                                       *)
(***************************************************************************)
EXTENDS Integers, Sequences, FiniteSets, TLC

\* ------------------------------------------------------------------ bounds
\* Largest frame count a decoder reports for a video whose frames are sampled
\* one in eight or closer.
MaxFrames == 9
\* Largest number of logical frames of a GIF.
MaxGifFrames == 5
\* Largest configured grid dimension N.
MaxGridDim == 2
\* Largest number of write operations of one run that the disk lets fail.
MaxFaults == 1
\* Largest number of images and largest maximum dimension of a direct call
\* of create_grid.
MaxImages == 10
MaxCallDim == 4
\* Largest frame index of an animated GIF whose frame is given a file name.
MaxGifIndex == 100
\* Most iterations of a sampling loop that are followed for a slow video.
MaxIterations == 4

\* --------------------------------------------------------------- constants
SAMPLING_INTERVAL == 2
MAX_WORKERS == 3

\* Python's None where a frame is expected, and where a tuple is expected
NoFrame == [file |-> 0, id |-> 0 - 1, px |-> 0, size |-> <<0, 0>>]
NoMatch == <<>>

\* --------------------------------------------------------------------- text
DigitChars == <<"0", "1", "2", "3", "4", "5", "6", "7", "8", "9">>

IsDigit(c) == \E k \in 1..10 : DigitChars[k] = c

DigitValue(c) == (CHOOSE k \in 1..10 : DigitChars[k] = c) - 1

RECURSIVE ToDec(_)
\* str(n) for a natural number n
ToDec(n) == IF n < 10 THEN <<DigitChars[n + 1]>>
            ELSE ToDec(n \div 10) \o <<DigitChars[(n % 10) + 1]>>

\* f"{n:02}"
Pad2(n) == IF n < 10 THEN <<"0">> \o ToDec(n) ELSE ToDec(n)

RECURSIVE ToInt(_)
\* int(text) for a non-empty run of digits
ToInt(s) == IF Len(s) = 0 THEN 0
            ELSE 10 * ToInt(SubSeq(s, 1, Len(s) - 1)) + DigitValue(s[Len(s)])

\* s.replace(':', '-')
replace_colon(s) == [k \in 1..Len(s) |-> IF s[k] = ":" THEN "-" ELSE s[k]]

\* s.startswith(p) at offset k (1-based)
HasAt(s, k, p) == k + Len(p) - 1 <= Len(s) /\ SubSeq(s, k, k + Len(p) - 1) = p

EndsWith(s, p) == Len(p) <= Len(s) /\ SubSeq(s, Len(s) - Len(p) + 1, Len(s)) = p

\* positions of the dots of a name
DotsOf(s) == {k \in 1..Len(s) : s[k] = "."}

Max(S) == CHOOSE x \in S : \A y \in S : y <= x

Min(S) == CHOOSE x \in S : \A y \in S : x <= y

\* os.path.splitext(name): the extension starts at the last dot, unless that
\* dot leads the name
splitext(name) ==
    LET dots == {k \in DotsOf(name) : \E j \in 1..(k - 1) : name[j] # "."}
    IN  IF dots = {} THEN <<name, <<>>>>
        ELSE <<SubSeq(name, 1, Max(dots) - 1), SubSeq(name, Max(dots), Len(name))>>

\* name.split(".")[0]
split_dot_first(name) ==
    IF DotsOf(name) = {} THEN name ELSE SubSeq(name, 1, Min(DotsOf(name)) - 1)

\* ----------------------------------------------------- media classification
VIDEO_EXTENSIONS == {<<".", "m", "p", "4">>, <<".", "a", "v", "i">>, <<".", "m", "o", "v">>,
                     <<".", "m", "k", "v">>, <<".", "f", "l", "v">>, <<".", "w", "m", "v">>}

IMAGE_EXTENSIONS == {<<".", "j", "p", "g">>, <<".", "j", "p", "e", "g">>, <<".", "p", "n", "g">>,
                     <<".", "b", "m", "p">>, <<".", "t", "i", "f", "f">>, <<".", "w", "e", "b", "p">>}

GIF_EXTENSIONS == {<<".", "g", "i", "f">>}

Unsupported == "ValueError"

\* the variant tag of a file name, or Unsupported where the code raises
get_file_type_from_extension(name) ==
    LET extension == splitext(name)[2]
    IN  IF extension \in VIDEO_EXTENSIONS THEN "video"
        ELSE IF extension \in IMAGE_EXTENSIONS THEN "image"
        ELSE IF extension \in GIF_EXTENSIONS THEN "gif"
        ELSE Unsupported

\* the directory entries with a media extension, in listing order; None
\* ("return" without a value) when there is none
get_valid_media_files(listing) ==
    LET found == SelectSeq(listing, LAMBDA f :
                     splitext(f.name)[2]
                         \in VIDEO_EXTENSIONS \cup IMAGE_EXTENSIONS \cup GIF_EXTENSIONS)
    IN  IF found = <<>> THEN [none |-> TRUE, paths |-> <<>>]
        ELSE [none |-> FALSE, paths |-> found]

\* ---------------------------------------------------------------- timestamps
\* Python's round(): to the nearest integer, ties to the even one
RoundHalfEven(num, den) ==
    LET q == num \div den
        r == num % den
    IN  IF 2 * r < den THEN q
        ELSE IF 2 * r > den THEN q + 1
        ELSE IF q % 2 = 0 THEN q ELSE q + 1

\* round(fps * SAMPLING_INTERVAL), fps in hundredths
frame_interval_of(fps) == RoundHalfEven(fps * SAMPLING_INTERVAL, 100)

\* round(frame_index / fps, 2), in hundredths of a second
timestamp_of(frame_index, fps) == RoundHalfEven(frame_index * 10000, fps)

\* str(timedelta(seconds=sec)) for less than a day: H:MM:SS
str_timedelta(sec) ==
    ToDec(sec \div 3600) \o <<":">> \o Pad2((sec \div 60) % 60) \o <<":">> \o Pad2(sec % 60)

format_timestamps_no_interval(timestamp) ==
    <<str_timedelta(timestamp \div 100), str_timedelta(timestamp \div 100)>>

\* format_timestamps(timestamp): int() truncates the hundredths
format_timestamps(timestamp) ==
    <<str_timedelta(timestamp \div 100),
      str_timedelta((timestamp + 100 * SAMPLING_INTERVAL) \div 100)>>

format_gif_timestamp(frame_index) ==
    <<(<<"0", "0", ":", "0", "0", ":">> \o Pad2(frame_index)),
      (<<"0", "0", ":", "0", "0", ":">> \o Pad2(frame_index))>>

make_frame_record(image, start_time, end_time) ==
    [image |-> image, start_time |-> start_time, end_time |-> end_time]

FRAME_PREFIX == <<"f", "r", "a", "m", "e", "_">>
GRID_PREFIX == <<"g", "r", "i", "d", "_">>
JPG == <<".", "j", "p", "g">>

\* f"frame_{start}_{end}.jpg" with the colons of both replaced
frame_filename(start_time, end_time) ==
    FRAME_PREFIX \o replace_colon(start_time) \o <<"_">> \o replace_colon(end_time) \o JPG

\* extract_frames_from_gif builds its own name from the index
gif_frame_filename(frame_index) ==
    LET frame_index_formatted ==
            IF frame_index <= 9 THEN <<"0">> \o ToDec(frame_index) ELSE ToDec(frame_index)
    IN  FRAME_PREFIX \o <<"0", "0", "-", "0", "0", "-">> \o frame_index_formatted
            \o <<"_", "0", "0", "-", "0", "0", "-">> \o frame_index_formatted \o JPG

IMAGE_FRAME_FILENAME ==
    FRAME_PREFIX \o <<"0", "-", "0", "0", "-", "0", "0", "_", "0", "-", "0", "0", "-", "0", "0">> \o JPG

\* ---------------------------------------------------------------- similarity
\* luminance contents a decoder can deliver
PixelValues == {0, 1, 2}

\* skimage's structural_similarity on two luminance buffers, scaled by 100:
\* symmetric, 100 for identical content, lower the further apart
compare_ssim(gray_1, gray_2) ==
    100 - 40 * (IF gray_1 >= gray_2 THEN gray_1 - gray_2 ELSE gray_2 - gray_1)

\* cv2.cvtColor(frame, COLOR_BGR2GRAY): the luminance of the buffer
load_frame(color_frame) == color_frame.px

get_frame_similarity_ssim_None_is_similar(frame_1, frame_2, threshold) ==
    IF frame_1 = NoFrame \/ frame_2 = NoFrame THEN TRUE
    ELSE compare_ssim(load_frame(frame_1), load_frame(frame_2)) >= threshold

get_frame_similarity_ssim_strict(frame_1, frame_2, threshold) ==
    IF frame_1 = NoFrame \/ frame_2 = NoFrame THEN FALSE
    ELSE compare_ssim(load_frame(frame_1), load_frame(frame_2)) > threshold

get_frame_similarity_ssim(frame_1, frame_2, threshold) ==
    IF frame_1 = NoFrame \/ frame_2 = NoFrame THEN FALSE
    ELSE compare_ssim(load_frame(frame_1), load_frame(frame_2)) >= threshold

is_similar_frame_ignores_flag(previous_frame, current_frame, threshold, use_static) ==
    IF previous_frame = NoFrame THEN FALSE
    ELSE get_frame_similarity_ssim(previous_frame, current_frame, threshold)

is_similar_frame(previous_frame, current_frame, threshold, use_static) ==
    IF use_static \/ previous_frame = NoFrame THEN FALSE
    ELSE get_frame_similarity_ssim(previous_frame, current_frame, threshold)

\* ------------------------------------------------------- names of frame files
\* one timestamp token \d{1,2}-\d{2}-\d{2} at offset k with an h-digit hour
TokenAt(s, k, h) ==
    /\ k >= 1
    /\ k + h + 5 <= Len(s)
    /\ \A j \in k..(k + h - 1) : IsDigit(s[j])
    /\ s[k + h] = "-"
    /\ IsDigit(s[k + h + 1]) /\ IsDigit(s[k + h + 2])
    /\ s[k + h + 3] = "-"
    /\ IsDigit(s[k + h + 4]) /\ IsDigit(s[k + h + 5])

\* TIMESTAMP_PATTERN at offset k with hours of h1 and h2 digits
PatternAt(s, k, h1, h2) ==
    /\ TokenAt(s, k, h1)
    /\ k + h1 + 6 <= Len(s)
    /\ s[k + h1 + 6] = "_"
    /\ TokenAt(s, k + h1 + 7, h2)

\* TIMESTAMP_PATTERN.search(filename).groups(), or NoMatch: the leftmost match,
\* each hour taking two digits when it can
extract_timestamps(filename) ==
    LET starts == {k \in 1..Len(filename) :
                     \E h1 \in {1, 2}, h2 \in {1, 2} : PatternAt(filename, k, h1, h2)}
    IN  IF starts = {} THEN NoMatch
        ELSE LET k  == Min(starts)
                 h1 == IF \E h2 \in {1, 2} : PatternAt(filename, k, 2, h2) THEN 2 ELSE 1
                 h2 == IF PatternAt(filename, k, h1, 2) THEN 2 ELSE 1
             IN  <<SubSeq(filename, k, k + h1 + 5),
                   SubSeq(filename, k + h1 + 7, k + h1 + 7 + h2 + 5)>>

\* the characters of generated names in code-point order
CodePoints == <<"-", ".", "0", "1", "2", "3", "4", "5", "6", "7", "8", "9", ":", "_",
                "a", "b", "c", "d", "e", "f", "g", "h", "i", "j", "k", "l", "m", "n",
                "o", "p", "q", "r", "s", "t", "u", "v", "w", "x", "y", "z">>

OrdTable == [c \in {CodePoints[k] : k \in 1..Len(CodePoints)} |->
                CHOOSE k \in 1..Len(CodePoints) : CodePoints[k] = c]

Ord(c) == OrdTable[c]

\* length of the longest prefix of s made of digits (want = TRUE) or of
\* non-digits (want = FALSE)
RunLength(s, want) ==
    LET stops == {k \in 1..Len(s) : IsDigit(s[k]) # want}
    IN  IF stops = {} THEN Len(s) ELSE Min(stops) - 1

natural_sort_key_plain_text(filename) == <<[txt |-> filename]>>

RECURSIVE natural_sort_key(_)
\* re.split(r"(\d+)", filename) with the digit runs turned into integers:
\* text, number, text, number, ..., text
natural_sort_key(filename) ==
    LET p    == RunLength(filename, FALSE)
        rest == SubSeq(filename, p + 1, Len(filename))
        q    == RunLength(rest, TRUE)
    IN  IF p = Len(filename) THEN <<[txt |-> filename]>>
        ELSE <<[txt |-> SubSeq(filename, 1, p)], [num |-> ToInt(SubSeq(rest, 1, q))]>>
                 \o natural_sort_key(SubSeq(rest, q + 1, Len(rest)))

RECURSIVE TextLess(_, _)
\* Python's str <
TextLess(a, b) ==
    IF Len(b) = 0 THEN FALSE
    ELSE IF Len(a) = 0 THEN TRUE
    ELSE IF a[1] # b[1] THEN Ord(a[1]) < Ord(b[1])
    ELSE TextLess(Tail(a), Tail(b))

ItemLess(x, y) ==
    IF "num" \in DOMAIN x THEN x.num < y.num ELSE TextLess(x.txt, y.txt)

RECURSIVE KeyLess(_, _)
\* Python's list <
KeyLess(a, b) ==
    IF Len(b) = 0 THEN FALSE
    ELSE IF Len(a) = 0 THEN TRUE
    ELSE IF a[1] # b[1] THEN ItemLess(a[1], b[1])
    ELSE KeyLess(Tail(a), Tail(b))

RECURSIVE SortedListings(_)
\* every order of the keyed names that sorted(..., key=natural_sort_key) can
\* return: os.listdir's order is arbitrary and the sort keeps it among equal
\* keys
SortedListings(keyed) ==
    IF keyed = {} THEN {<<>>}
    ELSE LET least == {n \in keyed : \A m \in keyed : ~KeyLess(m.key, n.key)}
         IN  UNION {{<<n.name>> \o t : t \in SortedListings(keyed \ {n})} : n \in least}

\* the .jpg names of a folder, naturally sorted
get_image_files(folder) ==
    SortedListings({[name |-> n, key |-> natural_sort_key(n)] :
                       n \in {m \in DOMAIN folder : EndsWith(m, JPG)}})

\* ---------------------------------------------------------------------- grids
\* ceil(sqrt(n))
CeilSqrt(n) == Min({s \in 0..n : s * s >= n})

Lesser(a, b) == IF a <= b THEN a ELSE b

create_grid_floor_sqrt(images, frame_width, frame_height, grid_dimension) ==
    LET num_images == Len(images)
        raw_grid_size == Max({s \in 0..num_images : s * s <= num_images})
        optimal_grid_dim == Lesser(grid_dimension, raw_grid_size)
    IN  IF num_images = 0
        THEN [size |-> <<frame_width, frame_height>>, pastes |-> <<>>]
        ELSE [size |-> <<optimal_grid_dim * frame_width, optimal_grid_dim * frame_height>>,
              pastes |-> [idx \in 1..num_images |->
                            [img |-> images[idx],
                             x |-> ((idx - 1) % optimal_grid_dim) * frame_width,
                             y |-> ((idx - 1) \div optimal_grid_dim) * frame_height]]]

create_grid_fixed_side(images, frame_width, frame_height, grid_dimension) ==
    [size |-> <<grid_dimension * frame_width, grid_dimension * frame_height>>,
     pastes |-> [idx \in 1..Len(images) |->
                   [img |-> images[idx],
                    x |-> ((idx - 1) % grid_dimension) * frame_width,
                    y |-> ((idx - 1) \div grid_dimension) * frame_height]]]

\* the canvas: its pixel size and the pastes in order, each image at its
\* top-left corner (x, y); what no paste covers stays white
create_grid(images, frame_width, frame_height, grid_dimension) ==
    LET num_images == Len(images)
        raw_grid_size == CeilSqrt(num_images)
        optimal_grid_dim == Lesser(grid_dimension, raw_grid_size)
    IN  IF num_images = 0
        THEN [size |-> <<frame_width, frame_height>>, pastes |-> <<>>]
        ELSE [size |-> <<optimal_grid_dim * frame_width, optimal_grid_dim * frame_height>>,
              pastes |-> [idx \in 1..num_images |->
                            [img |-> images[idx],
                             x |-> ((idx - 1) % optimal_grid_dim) * frame_width,
                             y |-> ((idx - 1) \div optimal_grid_dim) * frame_height]]]

\* f"grid_{start_timestamp}_{end_timestamp}.jpg"
grid_filename(start_timestamp, end_timestamp) ==
    GRID_PREFIX \o start_timestamp \o <<"_">> \o end_timestamp \o JPG

BlankCanvas == [size |-> <<0, 0>>, pastes |-> <<>>]

\* what a flush or a chunk does: raised (an exception left it), wrote (it
\* saves the grid file name/canvas) and the metadata it returns
NoGrid == [raised |-> FALSE, wrote |-> FALSE, name |-> <<>>, canvas |-> BlankCanvas,
           meta |-> <<>>]

Raised == [raised |-> TRUE, wrote |-> FALSE, name |-> <<>>, canvas |-> BlankCanvas,
           meta |-> <<>>]

GridOf(name, canvas, start_timestamp, end_timestamp, num_images) ==
    [raised |-> FALSE, wrote |-> TRUE, name |-> name, canvas |-> canvas,
     meta |-> <<[name |-> name, start_timestamp |-> start_timestamp,
                 end_timestamp |-> end_timestamp, num_images |-> num_images]>>]

ImagesOf(collected) == [k \in 1..Len(collected) |-> collected[k].image]

\* flush_grid without its effects on the disk and on the caller's buffer
\* (which it clears): the grid file it saves, none for an empty buffer, and
\* the metadata it returns
flush_grid(collected, grid_dimension) ==
    IF collected = <<>> THEN NoGrid
    ELSE LET frame_width  == collected[1].image.size[1]
             frame_height == collected[1].image.size[2]
             grid == create_grid(ImagesOf(collected), frame_width, frame_height,
                                 grid_dimension)
             start_time_formatted == replace_colon(collected[1].start_time)
             end_time_formatted   == replace_colon(collected[1].end_time)
         IN  GridOf(grid_filename(start_time_formatted, end_time_formatted), grid,
                    collected[1].start_time, collected[Len(collected)].end_time,
                    Len(collected))

chunk_grid_drops_short(files, folder, i, grid_dimension) ==
    LET chunk_size == grid_dimension * grid_dimension
        chunk  == SubSeq(files, i + 1, Lesser(i + chunk_size, Len(files)))
        images == [k \in 1..Len(chunk) |-> folder[chunk[k]]]
        first_file_in_chunk == extract_timestamps(chunk[1])
        last_file_in_chunk  == extract_timestamps(chunk[Len(chunk)])
    IN  IF Len(chunk) < chunk_size THEN NoGrid
        ELSE IF \E k \in 1..Len(chunk) : images[k].px < 0 THEN Raised
        ELSE IF first_file_in_chunk = NoMatch \/ last_file_in_chunk = NoMatch THEN Raised
        ELSE GridOf(grid_filename(first_file_in_chunk[1], last_file_in_chunk[2]),
                    create_grid(images, images[1].size[1], images[1].size[2],
                                grid_dimension),
                    first_file_in_chunk[1], last_file_in_chunk[2], Len(chunk))

\* one iteration of the loop of process_images_in_chunks: the grid of the
\* chunk files[i+1 .. i+chunk_size] (i counted from 0); it raises when a file
\* of the chunk is no image (Image.open) and when the first or the last name
\* of the chunk carries no timestamp pair (TypeError)
chunk_grid(files, folder, i, grid_dimension) ==
    LET chunk_size == grid_dimension * grid_dimension
        chunk  == SubSeq(files, i + 1, Lesser(i + chunk_size, Len(files)))
        images == [k \in 1..Len(chunk) |-> folder[chunk[k]]]
        grid   == create_grid(images, images[1].size[1], images[1].size[2], grid_dimension)
        first_file_in_chunk == extract_timestamps(chunk[1])
        last_file_in_chunk  == extract_timestamps(chunk[Len(chunk)])
    IN  IF \E k \in 1..Len(chunk) : images[k].px < 0 THEN Raised
        ELSE IF first_file_in_chunk = NoMatch \/ last_file_in_chunk = NoMatch THEN Raised
        ELSE GridOf(grid_filename(first_file_in_chunk[1], last_file_in_chunk[2]), grid,
                    first_file_in_chunk[1], last_file_in_chunk[2], Len(chunk))

\* ======================================================================
\* The candidate step of the two families of pipelines
\* ======================================================================
is_even_or_zero_every_index(frame_index) == frame_index >= 0

\* the GIF loops consider the logical indices that SAMPLING_INTERVAL divides
is_even_or_zero(frame_index) == frame_index % SAMPLING_INTERVAL = 0

stream_consider_last_seen(recent, coll, frame, start_time, end_time, threshold, use_static) ==
    IF ~is_similar_frame(recent, frame, threshold, use_static)
    THEN [outcome |-> "kept", most_recent_frame |-> frame,
          collected |-> Append(coll, make_frame_record(frame, start_time, end_time))]
    ELSE [outcome |-> "similar", most_recent_frame |-> frame, collected |-> coll]

\* _generate_video_grids / _generate_gif_grids: the candidate is appended to
\* the buffer and becomes the reference, unless it is similar to the reference
stream_consider(recent, coll, frame, start_time, end_time, threshold, use_static) ==
    IF ~is_similar_frame(recent, frame, threshold, use_static)
    THEN [outcome |-> "kept", most_recent_frame |-> frame,
          collected |-> Append(coll, make_frame_record(frame, start_time, end_time))]
    ELSE [outcome |-> "similar", most_recent_frame |-> recent, collected |-> coll]

\* extract_frames_from_video / extract_frames_from_gif: the comparison is
\* skipped with static sampling; the candidate becomes the reference once it
\* is written ("lost": it passed the comparison and its write failed)
extract_consider(recent, frame, threshold, use_static, write_ok) ==
    LET similar == IF ~use_static
                   THEN get_frame_similarity_ssim(recent, frame, threshold)
                   ELSE FALSE
    IN  IF similar THEN [outcome |-> "similar", most_recent_frame |-> recent]
        ELSE IF write_ok THEN [outcome |-> "kept", most_recent_frame |-> frame]
        ELSE [outcome |-> "lost", most_recent_frame |-> recent]

\* ======================================================================
\* Inputs of a run
\* ======================================================================
Thresholds == {60, 100}

\* a directory entry: whether it opens, CAP_PROP_FPS in hundredths, the frame
\* count it reports, how many of its frames can be read, the frame size,
\* whether it is still there when its pipeline starts, and the luminance
\* content of its frames (<<>>: any content)
MediaFile(name, readable, fps, frame_count, size) ==
    [name |-> name, readable |-> readable, fps |-> fps, frame_count |-> frame_count,
     decodable |-> frame_count, size |-> size, exists |-> TRUE, pixels |-> <<>>]

\* the file f with frames whose content repeats the pattern
Showing(f, pattern) == [f EXCEPT !.pixels = pattern]

\* the content a decoder can deliver for frame frame_index of f
PixelsAt(f, frame_index) ==
    IF f.pixels = <<>> THEN PixelValues
    ELSE {f.pixels[(frame_index % Len(f.pixels)) + 1]}

\* the file f cut short: cap.read() fails from frame n on
Truncated(f, n) == [f EXCEPT !.decodable = n]

\* the file f removed after the input directory was listed
Missing(f) == [f EXCEPT !.exists = FALSE]

A_MP4 == <<"a", ".", "m", "p", "4">>
A_GIF == <<"a", ".", "g", "i", "f">>
B_PNG == <<"b", ".", "p", "n", "g">>
B_MOV == <<"b", ".", "m", "o", "v">>
N_TXT == <<"n", ".", "t", "x", "t">>

\* the 10-second, 30 fps video of the scenario: 300 frames
ScenarioVideo == MediaFile(A_MP4, TRUE, 3000, 300, <<4, 3>>)

Videos ==
    {MediaFile(A_MP4, TRUE, 100, n, <<4, 3>>) : n \in {0, MaxFrames}}
        \cup {MediaFile(A_MP4, TRUE, 50, 3, <<4, 3>>)}
        \cup {Truncated(MediaFile(A_MP4, TRUE, 100, MaxFrames, <<4, 3>>), n) : n \in {0, 3}}
        \cup {MediaFile(A_MP4, FALSE, 0, 0, <<0, 0>>)}
        \cup {Missing(MediaFile(A_MP4, TRUE, 100, 3, <<4, 3>>))}
        \cup {MediaFile(A_MP4, TRUE, 401, MaxFrames, <<4, 3>>)}
        \cup {ScenarioVideo}

Gifs ==
    {MediaFile(A_GIF, TRUE, 0, n, <<2, 2>>) : n \in {1, MaxGifFrames}}
        \cup {MediaFile(A_GIF, FALSE, 0, 0, <<0, 0>>)}

Images == {MediaFile(B_PNG, TRUE, 0, 1, <<3, 3>>), MediaFile(B_PNG, FALSE, 0, 0, <<0, 0>>)}

\* the files of the two-entry input directories
SmallFiles ==
    {MediaFile(A_MP4, TRUE, 100, 3, <<4, 3>>), MediaFile(A_GIF, TRUE, 0, 2, <<2, 2>>),
     MediaFile(B_PNG, TRUE, 0, 1, <<3, 3>>), MediaFile(B_MOV, FALSE, 0, 0, <<0, 0>>),
     MediaFile(N_TXT, FALSE, 0, 0, <<0, 0>>)}

\* os.listdir(input_dir): one media file, or two entries in either order
Listings ==
    {<<f>> : f \in Videos \cup Gifs \cup Images}
        \cup {<<p[1], p[2]>> : p \in {q \in SmallFiles \X SmallFiles : q[1] # q[2]}}

\* no call of get_openai_labels
NoApi == [pc |-> "none", attempt |-> 0, responses |-> <<>>, slept |-> 0,
          returned |-> <<>>]

\* ======================================================================
\* State
\* ======================================================================
VARIABLES
    cmd,                     \* "stream" or "extract": the command that is run
    listing,                 \* the entries of the input directory
    media_files,             \* get_valid_media_files(input_dir), as main computed it
    similarity,              \* the name of the similarity profile of the command
    error,                   \* "none", or the exception that main raised
    api,                     \* a call of get_openai_labels: its locals, the
                             \* responses of the API so far, what it returned
    grid_dimension,          \* the grid size of the command (0: not given yet)
    ssmi_threshold,
    use_static_sample_rate,
    faults_left,             \* writes the disk may still fail
    pipe,                    \* per media file: the locals of its pipeline
    output_frames,           \* output/output_frames: folder -> name -> frame
    output_grids,            \* output/output_grids: folder -> name -> canvas
    grid_writes,             \* history: the grid files saved, in order
    phase,                   \* "files", "extracted", "grids", "done" or "aborted";
                             \* "entry", "returned", "raised" for a main that is
                             \* followed from its first line
    reported,                \* main_extract_frames: per media file "none", or
                             \* the outcome printed for it, "done" or "failed"
    folders,                 \* create_grids_from_frames: folders still to do
    call,                    \* a direct call of create_grid: its arguments
                             \* (num_images is -1 before any call)
    result,                  \* ... and the canvas it returned
    listed,                  \* a direct call of get_image_files: the names of
                             \* the folder
    listed_files             \* ... and the list it returned

cfgVars == <<cmd, listing, media_files, ssmi_threshold, use_static_sample_rate,
             similarity, error, api>>
diskVars == <<faults_left, output_frames, output_grids, grid_writes>>
gridsVars == <<phase, folders, reported>>
callVars == <<call, result, listed, listed_files>>
vars == <<cfgVars, grid_dimension, diskVars, gridsVars, callVars, pipe>>

Pipelines == 1..Len(media_files)

frames_per_grid_doubled == grid_dimension * 2

\* frames_per_grid = grid_dimension ** 2
frames_per_grid == grid_dimension * grid_dimension

EmptyMap == [x \in {} |-> 0]

\* os.makedirs(d, exist_ok=True)
MkDir(fs, d) ==
    IF d \in DOMAIN fs THEN fs
    ELSE [x \in DOMAIN fs \cup {d} |-> IF x = d THEN EmptyMap ELSE fs[x]]

\* os.rmdir(d) of an existing empty folder
RmDir(fs, d) == [x \in DOMAIN fs \ {d} |-> fs[x]]

\* a file is created or overwritten
PutFile(fs, d, n, content) ==
    [fs EXCEPT ![d] = [x \in DOMAIN fs[d] \cup {n} |-> IF x = n THEN content ELSE fs[d][x]]]

StreamDir(name) ==
    split_dot_first(name) \o <<"_", "_", "f", "r", "a", "m", "e", "s", "_", "_", "g", "r", "i", "d", "s">>

FramesDir(name) == splitext(name)[1] \o <<"_", "_", "f", "r", "a", "m", "e", "s">>

GridsDir(video_folder) == video_folder \o <<"_", "_", "g", "r", "i", "d", "s">>

\* the locals of a pipeline before it starts
NewPipe ==
    [pc |-> "queued", frame_index |-> 0, most_recent_frame |-> NoFrame,
     collected |-> <<>>, saved_grids |-> <<>>, saved_frames |-> 0,
     retained |-> <<>>,        \* history: the frame records kept
     trace |-> <<>>,           \* history: per candidate "kept", "similar" or "lost"
     candidate |-> NoFrame,    \* history: the last candidate
     reference |-> NoFrame]    \* history: the reference the last candidate met

Finished(i) == pipe[i].pc \in {"done", "failed"}

Running(i) == pipe[i].pc \notin {"queued", "done", "failed"}

\* whether a write that is attempted succeeds
WriteOutcomes(attempted) == IF attempted /\ faults_left > 0 THEN {TRUE, FALSE} ELSE {TRUE}

\* (ret, frame) of cap.read() at frame_index
Reads(f, frame_index) ==
    IF frame_index < f.decodable
    THEN {[ret |-> TRUE, px |-> p] : p \in PixelsAt(f, frame_index)}
    ELSE {[ret |-> FALSE, px |-> 0]}

\* save_grid(grid, dir, ...): the folder is made, then the file is saved
GridsAfter(dir, res, ok) ==
    IF ~res.wrote THEN output_grids
    ELSE IF ok THEN PutFile(MkDir(output_grids, dir), dir, res.name, res.canvas)
    ELSE MkDir(output_grids, dir)

WritesAfter(by, dir, res, ok) ==
    IF res.wrote /\ ok
    THEN Append(grid_writes, [by |-> by, dir |-> dir, name |-> res.name, canvas |-> res.canvas])
    ELSE grid_writes

FaultsAfter(attempted, ok) == IF attempted /\ ~ok THEN faults_left - 1 ELSE faults_left

NoCall == [num_images |-> 0 - 1, frame_width |-> 0, frame_height |-> 0, grid_dimension |-> 0]

Init ==
    /\ \/ /\ cmd \in {"stream", "extract"}
          /\ listing \in Listings
          /\ grid_dimension \in (IF cmd = "stream" THEN 1..MaxGridDim ELSE {0})
          /\ ssmi_threshold \in Thresholds
          /\ use_static_sample_rate \in BOOLEAN
          \* the scenario video is run as the scenario runs it: static sampling on
          /\ listing = <<ScenarioVideo>> => use_static_sample_rate
          /\ faults_left = MaxFaults
       \/ /\ cmd = "list"
          /\ listing = <<>>
          /\ grid_dimension = 0
          /\ ssmi_threshold = 60
          /\ use_static_sample_rate = FALSE
          /\ faults_left = 0
    /\ media_files = get_valid_media_files(listing).paths
    /\ similarity = "default"
    /\ error = "none"
    /\ api = NoApi
    /\ pipe = [i \in Pipelines |-> NewPipe]
    /\ reported = [i \in Pipelines |-> "none"]
    /\ output_frames = EmptyMap
    /\ output_grids = EmptyMap
    /\ grid_writes = <<>>
    /\ phase = "files"
    /\ folders = <<>>
    /\ call = NoCall
    /\ result = BlankCanvas
    /\ listed = {}
    /\ listed_files = <<>>

\* ======================================================================
\* main_generate_grids_from_media: the streaming generator
\* ======================================================================
\* where the loop over the frames stands once frame_index is idx
LoopPc(kind, idx, f) ==
    IF idx < f.frame_count THEN (IF kind = "video" THEN "video_loop" ELSE "gif_loop")
    ELSE "loop_exit"

\* generate_grids_from_media_stream up to the first frame: the file is
\* classified and opened (open_video, open_gif and Image.open raise for a file
\* that is not there); a static image is gridded at once
StreamOpen(i) ==
    /\ cmd = "stream" /\ phase = "files"
    /\ pipe[i].pc = "queued"
    /\ \A j \in 1..(i - 1) : Finished(j)
    /\ LET f == media_files[i]
           kind == get_file_type_from_extension(f.name)
           image == [file |-> i, id |-> 0, px |-> 0, size |-> f.size]
           record == make_frame_record(image, <<"0", "0", ":", "0", "0", ":", "0", "0">>,
                                       <<"0", "0", ":", "0", "0", ":", "0", "0">>)
       IN  \E res \in {IF kind = "image" /\ f.readable /\ f.exists
                        THEN flush_grid(<<record>>, grid_dimension) ELSE NoGrid},
              ok \in BOOLEAN :
             /\ ok \in WriteOutcomes(res.wrote)
             /\ pipe' = [pipe EXCEPT ![i] =
                  IF kind = Unsupported \/ ~f.exists THEN [@ EXCEPT !.pc = "failed"]
                  ELSE IF kind = "image"
                  THEN IF ~f.readable THEN [@ EXCEPT !.pc = "failed"]
                       ELSE [@ EXCEPT !.pc = IF ok THEN "done" ELSE "failed",
                                      !.collected = IF ok THEN <<>> ELSE <<record>>,
                                      !.saved_grids = IF ok THEN res.meta ELSE <<>>,
                                      !.retained = <<record>>,
                                      !.trace = <<"kept">>,
                                      !.candidate = image]
                  ELSE IF ~f.readable THEN [@ EXCEPT !.pc = "loop_exit"]
                  ELSE [@ EXCEPT !.pc = LoopPc(kind, 0, f)]]
             /\ output_grids' = GridsAfter(StreamDir(f.name), res, ok)
             /\ grid_writes' = WritesAfter(i, StreamDir(f.name), res, ok)
             /\ faults_left' = FaultsAfter(res.wrote, ok)
    /\ UNCHANGED <<cfgVars, grid_dimension, output_frames, gridsVars, callVars>>

\* the part of an iteration that both streaming loops share: the candidate is
\* considered, a full buffer is flushed, the index advances by step
StreamCandidate(i, kind, frame, stamps, step) ==
    \E c \in {stream_consider(pipe[i].most_recent_frame, pipe[i].collected, frame,
                                stamps[1], stamps[2], ssmi_threshold,
                                use_static_sample_rate)} :
      \E res \in {IF Len(c.collected) = frames_per_grid
                   THEN flush_grid(c.collected, grid_dimension) ELSE NoGrid},
         ok \in BOOLEAN :
        LET f == media_files[i]
        IN
          /\ ok \in WriteOutcomes(res.wrote)
          /\ pipe' = [pipe EXCEPT ![i] =
               [@ EXCEPT !.pc = IF ok THEN LoopPc(kind, pipe[i].frame_index + step, f)
                                ELSE "failed",
                         !.frame_index = IF ok THEN @ + step ELSE @,
                         !.most_recent_frame = c.most_recent_frame,
                         !.collected = IF res.wrote /\ ok THEN <<>> ELSE c.collected,
                         !.saved_grids = IF ok THEN @ \o res.meta ELSE @,
                         !.retained = IF c.outcome = "kept"
                                      THEN Append(@, c.collected[Len(c.collected)]) ELSE @,
                         !.trace = Append(@, c.outcome),
                         !.candidate = frame,
                         !.reference = pipe[i].most_recent_frame]]
          /\ output_grids' = GridsAfter(StreamDir(f.name), res, ok)
          /\ grid_writes' = WritesAfter(i, StreamDir(f.name), res, ok)
          /\ faults_left' = FaultsAfter(res.wrote, ok)

\* one iteration of the while loop of _generate_video_grids
GenVideoStep(i) ==
    /\ cmd = "stream"
    /\ pipe[i].pc = "video_loop"
    /\ \E rd \in Reads(media_files[i], pipe[i].frame_index) :
         IF ~rd.ret
         THEN /\ pipe' = [pipe EXCEPT ![i].pc = "loop_exit"]
              /\ UNCHANGED diskVars
         ELSE LET f == media_files[i]
                  frame_interval == frame_interval_of(f.fps)
                  frame == [file |-> i, id |-> pipe[i].frame_index, px |-> rd.px,
                            size |-> f.size]
                  timestamp == timestamp_of(pipe[i].frame_index, f.fps)
              IN  /\ StreamCandidate(i, "video", frame, format_timestamps(timestamp),
                                     frame_interval)
                  /\ output_frames' = output_frames
    /\ UNCHANGED <<cfgVars, grid_dimension, gridsVars, callVars>>

\* one iteration of the while loop of _generate_gif_grids, after a seek
\* that succeeded
GenGifStep(i) ==
    /\ cmd = "stream"
    /\ pipe[i].pc = "gif_loop"
    /\ IF is_even_or_zero(pipe[i].frame_index)
       THEN \E px \in PixelsAt(media_files[i], pipe[i].frame_index) :
              LET f == media_files[i]
                  frame_array == [file |-> i, id |-> pipe[i].frame_index, px |-> px,
                                  size |-> f.size]
              IN  StreamCandidate(i, "gif", frame_array,
                                  format_gif_timestamp(pipe[i].frame_index), 1)
       ELSE /\ pipe' = [pipe EXCEPT ![i] =
                  [@ EXCEPT !.pc = LoopPc("gif", pipe[i].frame_index + 1, media_files[i]),
                            !.frame_index = @ + 1]]
            /\ UNCHANGED <<faults_left, output_grids, grid_writes>>
    /\ UNCHANGED <<cfgVars, grid_dimension, output_frames, gridsVars, callVars>>

stream_finish_keeps_buffer(buffer, grid_dimension_) == NoGrid

stream_finish_blank_on_empty(buffer, grid_dimension_) ==
    IF buffer # <<>> THEN flush_grid(buffer, grid_dimension_)
    ELSE GridOf(grid_filename(<<>>, <<>>), create_grid(<<>>, 1, 1, grid_dimension_),
                <<>>, <<>>, 0)

\* the end of generate_grids_from_media_stream: "if collected: flush_grid"
stream_finish(buffer, grid_dimension_) ==
    IF buffer # <<>> THEN flush_grid(buffer, grid_dimension_) ELSE NoGrid

\* the loop has ended: what is left in the buffer is flushed and the
\* generator returns
StreamFinish(i) ==
    /\ cmd = "stream"
    /\ pipe[i].pc = "loop_exit"
    /\ LET f == media_files[i]
       IN  \E res \in {stream_finish(pipe[i].collected, grid_dimension)}, ok \in BOOLEAN :
             /\ ok \in WriteOutcomes(res.wrote)
             /\ pipe' = [pipe EXCEPT ![i] =
                  [@ EXCEPT !.pc = IF ok THEN "done" ELSE "failed",
                            !.collected = IF res.wrote /\ ok THEN <<>> ELSE @,
                            !.saved_grids = IF ok THEN @ \o res.meta ELSE @]]
             /\ output_grids' = GridsAfter(StreamDir(f.name), res, ok)
             /\ grid_writes' = WritesAfter(i, StreamDir(f.name), res, ok)
             /\ faults_left' = FaultsAfter(res.wrote, ok)
    /\ UNCHANGED <<cfgVars, grid_dimension, output_frames, gridsVars, callVars>>

\* ======================================================================
\* main_extract_frames: one extract_frames per media file, in a process pool
\* ======================================================================
makedirs_before_exists_check(fs, dir, exists) == MkDir(fs, dir)

\* the head of extract_frames: FileNotFoundError for a path that does not
\* exist, else os.makedirs of the frame folder
makedirs_output_frames_media_path(fs, dir, exists) ==
    IF ~exists THEN fs ELSE MkDir(fs, dir)

\* extract_frames up to the first frame: the frame folder is made, the file
\* is classified and opened; a static image is copied at once
ExtractStart(i) ==
    /\ cmd = "extract" /\ phase = "files"
    /\ pipe[i].pc = "queued"
    /\ Cardinality({j \in Pipelines : Running(j)}) < MAX_WORKERS
    /\ LET f == media_files[i]
           kind == get_file_type_from_extension(f.name)
           dir == FramesDir(f.name)
           made == makedirs_output_frames_media_path(output_frames, dir, f.exists)
           image == [file |-> i, id |-> 0, px |-> IF f.readable THEN 0 ELSE 0 - 1,
                     size |-> f.size]
           record == make_frame_record(image, <<"0", ":", "0", "0", ":", "0", "0">>,
                                       <<"0", ":", "0", "0", ":", "0", "0">>)
       IN  \E ok \in WriteOutcomes(kind = "image" /\ f.exists) :
             /\ pipe' = [pipe EXCEPT ![i] =
                  IF kind = Unsupported \/ ~f.exists THEN [@ EXCEPT !.pc = "failed"]
                  ELSE IF kind = "image"
                  THEN IF ok THEN [@ EXCEPT !.pc = "done", !.saved_frames = 1,
                                            !.retained = <<record>>, !.trace = <<"kept">>,
                                            !.candidate = image]
                       ELSE [@ EXCEPT !.pc = "failed", !.trace = <<"lost">>,
                                      !.candidate = image]
                  ELSE IF kind = "video"
                  THEN [@ EXCEPT !.pc = IF f.readable /\ 0 < f.frame_count
                                        THEN "video_loop" ELSE "video_cleanup"]
                  ELSE [@ EXCEPT !.pc = IF ~f.readable THEN "failed"
                                        ELSE IF 0 < f.frame_count THEN "gif_loop"
                                        ELSE "done"]]
             /\ output_frames' = IF kind = "image" /\ f.exists /\ ok
                                 THEN PutFile(made, dir, IMAGE_FRAME_FILENAME, image)
                                 ELSE made
             /\ faults_left' = FaultsAfter(kind = "image" /\ f.exists, ok)
    /\ UNCHANGED <<cfgVars, grid_dimension, output_grids, grid_writes, gridsVars, callVars>>

\* one iteration of the while loop of extract_frames_from_video
ExtractVideoStep(i) ==
    /\ cmd = "extract"
    /\ pipe[i].pc = "video_loop"
    /\ \E rd \in Reads(media_files[i], pipe[i].frame_index) :
         IF ~rd.ret
         THEN /\ pipe' = [pipe EXCEPT ![i].pc = "video_cleanup"]
              /\ UNCHANGED <<faults_left, output_frames>>
         ELSE LET f == media_files[i]
                  dir == FramesDir(f.name)
                  frame_interval == frame_interval_of(f.fps)
                  frame == [file |-> i, id |-> pipe[i].frame_index, px |-> rd.px,
                            size |-> f.size]
                  timestamp == timestamp_of(pipe[i].frame_index, f.fps)
                  stamps == format_timestamps(timestamp)
                  frame_filename_ == frame_filename(stamps[1], stamps[2])
                  recent == pipe[i].most_recent_frame
                  attempted == extract_consider(recent, frame, ssmi_threshold,
                                                use_static_sample_rate, TRUE).outcome = "kept"
              IN  \E ok \in WriteOutcomes(attempted) :
                    LET written == ok /\ dir \in DOMAIN output_frames
                        c == extract_consider(recent, frame, ssmi_threshold,
                                              use_static_sample_rate, written)
                    IN  /\ pipe' = [pipe EXCEPT ![i] =
                             [@ EXCEPT !.pc = IF pipe[i].frame_index + frame_interval
                                                   >= f.frame_count
                                              THEN "video_cleanup" ELSE "video_loop",
                                       !.frame_index = @ + frame_interval,
                                       !.most_recent_frame = c.most_recent_frame,
                                       !.saved_frames = IF c.outcome = "kept" THEN @ + 1 ELSE @,
                                       !.retained = IF c.outcome = "kept"
                                                    THEN Append(@, make_frame_record(
                                                             frame, stamps[1], stamps[2]))
                                                    ELSE @,
                                       !.trace = Append(@, c.outcome),
                                       !.candidate = frame,
                                       !.reference = recent]]
                        /\ output_frames' = IF c.outcome = "kept"
                                            THEN PutFile(output_frames, dir, frame_filename_, frame)
                                            ELSE output_frames
                        /\ faults_left' = FaultsAfter(attempted, ok)
    /\ UNCHANGED <<cfgVars, grid_dimension, output_grids, grid_writes, gridsVars, callVars>>

\* the end of extract_frames_from_video: a folder without saved frames is
\* removed; os.rmdir raises when the folder is missing or holds files
ExtractVideoFinish(i) ==
    /\ cmd = "extract"
    /\ pipe[i].pc = "video_cleanup"
    /\ LET dir == FramesDir(media_files[i].name)
           removable == dir \in DOMAIN output_frames /\ DOMAIN output_frames[dir] = {}
       IN  /\ pipe' = [pipe EXCEPT ![i].pc =
                          IF pipe[i].saved_frames = 0 /\ ~removable THEN "failed" ELSE "done"]
           /\ output_frames' = IF pipe[i].saved_frames = 0 /\ removable
                               THEN RmDir(output_frames, dir) ELSE output_frames
    /\ UNCHANGED <<cfgVars, grid_dimension, faults_left, output_grids, grid_writes, gridsVars, callVars>>

\* one iteration of the while loop of extract_frames_from_gif, after a seek
\* that succeeded; Image.save raises when the write fails
ExtractGifStep(i) ==
    /\ cmd = "extract"
    /\ pipe[i].pc = "gif_loop"
    /\ IF is_even_or_zero(pipe[i].frame_index)
       THEN \E px \in PixelsAt(media_files[i], pipe[i].frame_index) :
              LET f == media_files[i]
                  dir == FramesDir(f.name)
                  current_frame_array == [file |-> i, id |-> pipe[i].frame_index,
                                          px |-> px, size |-> f.size]
                  stamps == format_gif_timestamp(pipe[i].frame_index)
                  recent == pipe[i].most_recent_frame
                  attempted == extract_consider(recent, current_frame_array, ssmi_threshold,
                                                use_static_sample_rate, TRUE).outcome = "kept"
              IN  \E ok \in WriteOutcomes(attempted) :
                    LET written == ok /\ dir \in DOMAIN output_frames
                        c == extract_consider(recent, current_frame_array, ssmi_threshold,
                                              use_static_sample_rate, written)
                    IN  /\ pipe' = [pipe EXCEPT ![i] =
                             [@ EXCEPT !.pc = IF c.outcome = "lost" THEN "failed"
                                              ELSE IF pipe[i].frame_index + 1 < f.frame_count
                                              THEN "gif_loop" ELSE "done",
                                       !.frame_index = IF c.outcome = "lost" THEN @ ELSE @ + 1,
                                       !.most_recent_frame = c.most_recent_frame,
                                       !.saved_frames = IF c.outcome = "kept" THEN @ + 1 ELSE @,
                                       !.retained = IF c.outcome = "kept"
                                                    THEN Append(@, make_frame_record(
                                                             current_frame_array,
                                                             stamps[1], stamps[2]))
                                                    ELSE @,
                                       !.trace = Append(@, c.outcome),
                                       !.candidate = current_frame_array,
                                       !.reference = recent]]
                        /\ output_frames' =
                             IF c.outcome = "kept"
                             THEN PutFile(output_frames, dir,
                                          gif_frame_filename(pipe[i].frame_index),
                                          current_frame_array)
                             ELSE output_frames
                        /\ faults_left' = FaultsAfter(attempted, ok)
       ELSE /\ pipe' = [pipe EXCEPT ![i] =
                  [@ EXCEPT !.pc = IF pipe[i].frame_index + 1 < media_files[i].frame_count
                                   THEN "gif_loop" ELSE "done",
                            !.frame_index = @ + 1]]
            /\ UNCHANGED <<faults_left, output_frames>>
    /\ UNCHANGED <<cfgVars, grid_dimension, output_grids, grid_writes, gridsVars, callVars>>

\* one iteration of the loop over as_completed(futures): the outcome of a
\* finished pipeline is printed, "Done" when future.result() returns and
\* "Failed" when it raises
ReportOutcome(i) ==
    /\ cmd = "extract" /\ phase = "files"
    /\ Finished(i) /\ reported[i] = "none"
    /\ reported' = [reported EXCEPT ![i] = pipe[i].pc]
    /\ UNCHANGED <<cfgVars, grid_dimension, diskVars, phase, folders, callVars, pipe>>

\* the loop over the futures has ended and the pool is shut down:
\* "Frame extraction complete."
ExtractionComplete ==
    /\ cmd = "extract" /\ phase = "files"
    /\ \A i \in Pipelines : reported[i] # "none"
    /\ phase' = "extracted"
    /\ UNCHANGED <<cfgVars, grid_dimension, diskVars, folders, reported, callVars, pipe>>

\* ======================================================================
\* main_generate_grids: create_grids_from_frames over the frame folders
\* ======================================================================
RECURSIVE Orders(_)
\* every order in which os.listdir can return the entries
Orders(S) ==
    IF S = {} THEN {<<>>}
    ELSE UNION {{<<x>> \o t : t \in Orders(S \ {x})} : x \in S}

\* main_generate_grids, run once main_extract_frames has returned: it raises
\* when output_frames is empty, else the frame folders are listed
StartGrids ==
    /\ cmd = "extract" /\ phase = "extracted"
    /\ grid_dimension' \in 1..MaxGridDim
    /\ IF DOMAIN output_frames = {}
       THEN /\ phase' = "aborted"
            /\ folders' = folders
       ELSE /\ phase' = "grids"
            /\ folders' \in Orders(DOMAIN output_frames)
    /\ UNCHANGED <<cfgVars, diskVars, callVars, pipe, reported>>

RECURSIVE process_images_in_chunks(_, _, _, _)
\* the loop of process_images_in_chunks from offset i on: what each iteration
\* does, up to the one that raises
process_images_in_chunks(image_files, folder, i, grid_size) ==
    IF i >= Len(image_files) THEN <<>>
    ELSE LET res == chunk_grid(image_files, folder, i, grid_size)
         IN  IF res.raised THEN <<res>>
             ELSE <<res>> \o process_images_in_chunks(image_files, folder,
                                                      i + grid_size * grid_size, grid_size)

RECURSIVE SaveAll(_, _, _)
\* save_grid for each grid of saved, in order
SaveAll(fs, dir, saved) ==
    IF saved = <<>> THEN fs
    ELSE SaveAll(PutFile(MkDir(fs, dir), dir, saved[1].name, saved[1].canvas), dir,
                 Tail(saved))

\* create_grids_from_frames takes the next folder: its frames are listed and
\* process_images_in_chunks grids them chunk by chunk; an exception (a frame
\* that is no image, a name without timestamps, a write that fails at chunk
\* fail_at) ends create_grids_from_frames
GridsFolder ==
    /\ phase = "grids" /\ folders # <<>>
    /\ LET video_folder == Head(folders)
           video_grid_dir == GridsDir(video_folder)
       IN  \E image_files \in get_image_files(output_frames[video_folder]) :
           \E run \in {process_images_in_chunks(image_files, output_frames[video_folder],
                                               0, grid_dimension)} :
           \E fail_at \in 0..Len(run) :
             LET saved == SelectSeq(IF fail_at = 0 THEN run ELSE SubSeq(run, 1, fail_at - 1),
                                    LAMBDA res : res.wrote)
                 raised == run # <<>> /\ run[Len(run)].raised
             IN  /\ fail_at > 0 => faults_left > 0 /\ run[fail_at].wrote
                 /\ output_grids' = IF fail_at > 0
                                    THEN MkDir(SaveAll(output_grids, video_grid_dir, saved),
                                               video_grid_dir)
                                    ELSE SaveAll(output_grids, video_grid_dir, saved)
                 /\ grid_writes' = grid_writes \o
                        [k \in 1..Len(saved) |->
                           [by |-> 0, dir |-> video_grid_dir, name |-> saved[k].name,
                            canvas |-> saved[k].canvas]]
                 /\ faults_left' = IF fail_at > 0 THEN faults_left - 1 ELSE faults_left
                 /\ phase' = IF fail_at > 0 \/ raised THEN "aborted"
                             ELSE IF Tail(folders) = <<>> THEN "done" ELSE "grids"
                 /\ folders' = IF fail_at > 0 \/ raised THEN folders ELSE Tail(folders)
    /\ UNCHANGED <<cfgVars, grid_dimension, output_frames, callVars, pipe, reported>>

\* ======================================================================
\* Direct calls of get_image_files
\* ======================================================================
\* names a frame folder can hold: frames numbered without padding, frames of
\* a recording of ten hours, a file that is no frame
ListedNames ==
    {FRAME_PREFIX \o ToDec(n) \o JPG : n \in {1, 2, 10}}
        \cup {frame_filename(str_timedelta(t), str_timedelta(t + SAMPLING_INTERVAL)) :
                 t \in {8, 3598, 35998, 36000}}
        \cup {<<"n", "o", "t", "e", "s", ".", "t", "x", "t">>}

\* get_image_files(folder) for a folder of some of these names
CallGetImageFiles ==
    /\ cmd = "list" /\ listed = {}
    /\ \E names \in SUBSET ListedNames :
         /\ names # {}
         /\ listed' = names
         /\ listed_files' \in get_image_files([n \in names |-> NoFrame])
    /\ UNCHANGED <<cfgVars, grid_dimension, diskVars, gridsVars, call, result, pipe>>

Next ==
    \/ \E i \in Pipelines : StreamOpen(i)
    \/ \E i \in Pipelines : GenVideoStep(i)
    \/ \E i \in Pipelines : GenGifStep(i)
    \/ \E i \in Pipelines : StreamFinish(i)
    \/ \E i \in Pipelines : ExtractStart(i)
    \/ \E i \in Pipelines : ExtractVideoStep(i)
    \/ \E i \in Pipelines : ExtractVideoFinish(i)
    \/ \E i \in Pipelines : ExtractGifStep(i)
    \/ \E i \in Pipelines : ReportOutcome(i)
    \/ ExtractionComplete
    \/ StartGrids
    \/ GridsFolder
    \/ CallGetImageFiles

Spec == Init /\ [][Next]_vars

\* ======================================================================
\* Direct calls of create_grid
\* ======================================================================
CallSizes == {1, 2}

InitCall ==
    /\ cmd = "call"
    /\ listing = <<>>
    /\ media_files = <<>>
    /\ similarity = "default"
    /\ error = "none"
    /\ api = NoApi
    /\ grid_dimension = 1
    /\ ssmi_threshold = 60
    /\ use_static_sample_rate = FALSE
    /\ faults_left = 0
    /\ pipe = [i \in {} |-> NewPipe]
    /\ reported = [i \in {} |-> "none"]
    /\ listed = {}
    /\ listed_files = <<>>
    /\ output_frames = EmptyMap
    /\ output_grids = EmptyMap
    /\ grid_writes = <<>>
    /\ phase = "done"
    /\ folders = <<>>
    /\ call = NoCall
    /\ result = BlankCanvas

\* create_grid(images, frame_width, frame_height, grid_dimension) with
\* num_images images of the frame size
CallCreateGrid ==
    /\ cmd = "call"
    /\ \E num_images \in 0..MaxImages, N \in 1..MaxCallDim,
          frame_width \in CallSizes, frame_height \in CallSizes :
         /\ call' = [num_images |-> num_images, frame_width |-> frame_width,
                     frame_height |-> frame_height, grid_dimension |-> N]
         /\ result' = create_grid(
                          [k \in 1..num_images |->
                             [file |-> 0, id |-> k - 1, px |-> 0,
                              size |-> <<frame_width, frame_height>>]],
                          frame_width, frame_height, N)
    /\ UNCHANGED <<cfgVars, grid_dimension, diskVars, gridsVars, pipe, listed, listed_files>>

NextCall == CallCreateGrid

SpecGrid == InitCall /\ [][NextCall]_vars

\* ======================================================================
\* The two mains, followed from their first line
\* ======================================================================
\* the keys of SSIM_THRESHOLDS
SimilarityProfiles == {"loose", "default", "strict"}

SSIM_THRESHOLDS_get_or_default(similarity_) == [raised |-> FALSE, values |-> Thresholds]

\* SSIM_THRESHOLDS[similarity]: KeyError for a name that is no key, else the
\* cutoff of the profile
SSIM_THRESHOLDS_getitem(similarity_) ==
    IF similarity_ \in SimilarityProfiles THEN [raised |-> FALSE, values |-> Thresholds]
    ELSE [raised |-> TRUE, values |-> {}]

C_V1_MP4 == <<"c", ".", "v", "1", ".", "m", "p", "4">>
NOTES_TXT == <<"n", "o", "t", "e", "s", ".", "t", "x", "t">>

\* the input directories of these runs: empty, without a media file, one
\* media file of each kind, a media file beside a file that is none
MainListings ==
    {<<>>,
     <<MediaFile(N_TXT, FALSE, 0, 0, <<0, 0>>)>>,
     <<MediaFile(N_TXT, FALSE, 0, 0, <<0, 0>>), MediaFile(NOTES_TXT, FALSE, 0, 0, <<0, 0>>)>>,
     <<MediaFile(B_PNG, TRUE, 0, 1, <<3, 3>>)>>,
     <<MediaFile(A_GIF, TRUE, 0, 3, <<2, 2>>)>>,
     <<MediaFile(C_V1_MP4, TRUE, 100, 3, <<4, 3>>)>>,
     <<MediaFile(N_TXT, FALSE, 0, 0, <<0, 0>>), MediaFile(A_MP4, TRUE, 100, 5, <<4, 3>>)>>}

InitMain ==
    /\ cmd \in {"stream", "extract"}
    /\ listing \in MainListings
    /\ similarity \in SimilarityProfiles \cup {"exact"}
    /\ grid_dimension \in (IF cmd = "stream" THEN 1..MaxGridDim ELSE {0})
    /\ use_static_sample_rate \in BOOLEAN
    /\ ssmi_threshold = 0
    /\ error = "none"
    /\ api = NoApi
    /\ media_files = <<>>
    /\ faults_left = 0
    /\ pipe = [i \in {} |-> NewPipe]
    /\ reported = [i \in {} |-> "none"]
    /\ output_frames = EmptyMap
    /\ output_grids = EmptyMap
    /\ grid_writes = <<>>
    /\ phase = "entry"
    /\ folders = <<>>
    /\ call = NoCall
    /\ result = BlankCanvas
    /\ listed = {}
    /\ listed_files = <<>>

\* the exception that ends main before its loop over the media files, or
\* "none". main_generate_grids_from_media checks the directory, looks the
\* profile up and then lists the media files; main_extract_frames lists the
\* media files and then looks the profile up. Iterating over None raises
\* TypeError.
main_error(cmd_, listing_, similarity_) ==
    IF cmd_ = "stream" /\ listing_ = <<>> THEN "FileNotFoundError"
    ELSE IF SSIM_THRESHOLDS_getitem(similarity_).raised THEN "KeyError"
    ELSE IF get_valid_media_files(listing_).none THEN "TypeError"
    ELSE "none"

\* main up to the first per-file pipeline
MainEntry ==
    /\ phase = "entry"
    /\ error' = main_error(cmd, listing, similarity)
    /\ IF error' = "none"
       THEN /\ phase' = "files"
            /\ ssmi_threshold' \in SSIM_THRESHOLDS_getitem(similarity).values
            /\ media_files' = get_valid_media_files(listing).paths
       ELSE /\ phase' = "raised"
            /\ UNCHANGED <<ssmi_threshold, media_files>>
    /\ pipe' = [i \in 1..Len(media_files') |-> NewPipe]
    /\ reported' = [i \in 1..Len(media_files') |-> "none"]
    /\ UNCHANGED <<cmd, listing, use_static_sample_rate, similarity, api, grid_dimension,
                   diskVars, folders, callVars>>

\* main_generate_grids_from_media after its loop: "return output_dir"
StreamReturn ==
    /\ cmd = "stream" /\ phase = "files"
    /\ \A i \in Pipelines : Finished(i)
    /\ phase' = "returned"
    /\ UNCHANGED <<cfgVars, grid_dimension, diskVars, folders, reported, callVars, pipe>>

NextMain ==
    \/ MainEntry
    \/ \E i \in Pipelines : StreamOpen(i)
    \/ \E i \in Pipelines : GenVideoStep(i)
    \/ \E i \in Pipelines : GenGifStep(i)
    \/ \E i \in Pipelines : StreamFinish(i)
    \/ StreamReturn
    \/ \E i \in Pipelines : ExtractStart(i)
    \/ \E i \in Pipelines : ExtractVideoStep(i)
    \/ \E i \in Pipelines : ExtractVideoFinish(i)
    \/ \E i \in Pipelines : ExtractGifStep(i)
    \/ \E i \in Pipelines : ReportOutcome(i)
    \/ ExtractionComplete
    \/ StartGrids
    \/ GridsFolder

SpecMain == InitMain /\ [][NextMain]_vars

\* ======================================================================
\* Direct calls of extract_timestamps on the names the pipelines generate
\* ======================================================================
\* seconds at which a video frame is sampled: up to the last even second
\* of a day
VideoSeconds == {0, 8, 58, 3598, 35998, 86396}

NameOf(kind, start, end, filename) ==
    [kind |-> kind, start |-> start, end |-> end, filename |-> filename]

\* the names generated from a timestamp pair (start, end): the frame files
\* of extract_frames and the grid files of flush_grid for videos, GIFs and
\* images; and names of files that carry no pair
GeneratedNames ==
    {NameOf("video frame", str_timedelta(t), str_timedelta(t + SAMPLING_INTERVAL),
            frame_filename(str_timedelta(t), str_timedelta(t + SAMPLING_INTERVAL))) :
        t \in VideoSeconds}
    \cup
    {NameOf("video grid", str_timedelta(t), str_timedelta(t + SAMPLING_INTERVAL),
            grid_filename(replace_colon(str_timedelta(t)),
                          replace_colon(str_timedelta(t + SAMPLING_INTERVAL)))) :
        t \in VideoSeconds}
    \cup
    {NameOf("gif frame", format_gif_timestamp(i)[1], format_gif_timestamp(i)[2],
            gif_frame_filename(i)) :
        i \in {j \in 0..MaxGifIndex : is_even_or_zero(j)}}
    \cup
    {NameOf("gif grid", format_gif_timestamp(i)[1], format_gif_timestamp(i)[2],
            grid_filename(replace_colon(format_gif_timestamp(i)[1]),
                          replace_colon(format_gif_timestamp(i)[2]))) :
        i \in {j \in 0..MaxGifIndex : is_even_or_zero(j)}}
    \cup
    {NameOf("image frame", <<"0", ":", "0", "0", ":", "0", "0">>,
            <<"0", ":", "0", "0", ":", "0", "0">>, IMAGE_FRAME_FILENAME),
     NameOf("image grid", <<"0", "0", ":", "0", "0", ":", "0", "0">>,
            <<"0", "0", ":", "0", "0", ":", "0", "0">>,
            grid_filename(<<"0", "0", "-", "0", "0", "-", "0", "0">>,
                          <<"0", "0", "-", "0", "0", "-", "0", "0">>))}
    \cup
    {NameOf("other", <<>>, <<>>, n) : n \in {NOTES_TXT, FRAME_PREFIX \o ToDec(1) \o JPG}}

InitNames ==
    /\ cmd = "names"
    /\ listing = <<>>
    /\ media_files = <<>>
    /\ similarity = "default"
    /\ error = "none"
    /\ api = NoApi
    /\ grid_dimension = 1
    /\ ssmi_threshold = 60
    /\ use_static_sample_rate = FALSE
    /\ faults_left = 0
    /\ pipe = [i \in {} |-> NewPipe]
    /\ reported = [i \in {} |-> "none"]
    /\ listed = {}
    /\ listed_files = <<>>
    /\ output_frames = EmptyMap
    /\ output_grids = EmptyMap
    /\ grid_writes = <<>>
    /\ phase = "done"
    /\ folders = <<>>
    /\ call = NameOf("none", <<>>, <<>>, <<>>)
    /\ result = NoMatch

\* extract_timestamps(filename) for one of these names
CallExtractTimestamps ==
    /\ cmd = "names"
    /\ \E c \in GeneratedNames :
         /\ call' = c
         /\ result' = extract_timestamps(c.filename)
    /\ UNCHANGED <<cfgVars, grid_dimension, diskVars, gridsVars, pipe, listed, listed_files>>

NextNames == CallExtractTimestamps

SpecNames == InitNames /\ [][NextNames]_vars

\* ======================================================================
\* Calls of get_openai_labels
\* ======================================================================
\* what chat.completions.create does on one attempt: it answers with labels
\* as a JSON object, it answers with a refusal, or the attempt ends in an
\* exception (the request fails, the answer has no choices, the content is
\* no JSON)
ApiAnswers == {[kind |-> "content", detail |-> d] : d \in {"labels", "no labels"}}
                 \cup {[kind |-> "refusal", detail |-> d] : d \in {"policy", "unsafe"}}
ApiFailures == {[kind |-> "exception", detail |-> d] :
                   d \in {"APIError", "RateLimitError", "IndexError", "JSONDecodeError"}}

\* {"labels": [f"<prefix> ...: {detail}"]}
one_message(prefix, detail) == <<[labels |-> <<[prefix |-> prefix, detail |-> detail]>>]>>

except_branch_reraise(attempt, e) ==
    IF attempt = 2 THEN [pc |-> "raised", returned |-> <<>>, sleep |-> 0]
    ELSE [pc |-> "loop", returned |-> <<>>, sleep |-> 2 * (attempt + 1)]

\* the except branch of the loop: the third failure returns the error
\* message, an earlier one sleeps and lets the loop go on
except_branch(attempt, e) ==
    IF attempt = 2
    THEN [pc |-> "returned", returned |-> one_message("Error:", e), sleep |-> 0]
    ELSE [pc |-> "loop", returned |-> <<>>, sleep |-> 2 * (attempt + 1)]

InitLabels ==
    /\ cmd = "labels"
    /\ listing = <<>>
    /\ media_files = <<>>
    /\ similarity = "default"
    /\ error = "none"
    /\ api \in {[NoApi EXCEPT !.pc = c] : c \in {"entry", "entry without key"}}
    /\ grid_dimension = 1
    /\ ssmi_threshold = 60
    /\ use_static_sample_rate = FALSE
    /\ faults_left = 0
    /\ pipe = [i \in {} |-> NewPipe]
    /\ reported = [i \in {} |-> "none"]
    /\ listed = {}
    /\ listed_files = <<>>
    /\ output_frames = EmptyMap
    /\ output_grids = EmptyMap
    /\ grid_writes = <<>>
    /\ phase = "done"
    /\ folders = <<>>
    /\ call = NoCall
    /\ result = BlankCanvas

\* get_open_ai_client_model: ValueError when no key or no model is given
\* and the environment has none
GetClient ==
    /\ cmd = "labels"
    /\ api.pc \in {"entry", "entry without key"}
    /\ api' = [api EXCEPT !.pc = IF api.pc = "entry" THEN "loop" ELSE "raised"]
    /\ UNCHANGED <<cmd, listing, media_files, ssmi_threshold, use_static_sample_rate,
                   similarity, error, grid_dimension, diskVars, gridsVars, callVars, pipe>>

\* one iteration of "for attempt in range(3)"
Attempt ==
    /\ cmd = "labels"
    /\ api.pc = "loop" /\ api.attempt < 3
    /\ \E r \in ApiAnswers \cup ApiFailures :
         LET x == except_branch(api.attempt, r.detail)
         IN  api' = [api EXCEPT
                 !.responses = Append(@, r),
                 !.pc = IF r.kind = "exception" THEN x.pc ELSE "returned",
                 !.attempt = IF r.kind = "exception" /\ x.pc = "loop" THEN @ + 1 ELSE @,
                 !.slept = IF r.kind = "exception" THEN @ + x.sleep ELSE @,
                 !.returned = IF r.kind = "refusal" THEN one_message("Warning:", r.detail)
                              ELSE IF r.kind = "content"
                              THEN <<[labels |-> IF r.detail = "labels"
                                                 THEN <<[prefix |-> "label", detail |-> "hat"]>>
                                                 ELSE <<>>]>>
                              ELSE x.returned]
    /\ UNCHANGED <<cmd, listing, media_files, ssmi_threshold, use_static_sample_rate,
                   similarity, error, grid_dimension, diskVars, gridsVars, callVars, pipe>>

NextLabels == GetClient \/ Attempt

SpecLabels == InitLabels /\ [][NextLabels]_vars

\* ======================================================================
\* The sampling loops on videos of a low frame rate
\* ======================================================================
\* CAP_PROP_FPS of a time-lapse recording, in hundredths: 0.2, 0.25, 0.3
SlowRates == {20, 25, 30}

LoopListings ==
    {<<MediaFile(A_MP4, TRUE, fps, n, <<4, 3>>)>> : fps \in SlowRates, n \in {1, 3}}
        \cup {<<MediaFile(A_GIF, TRUE, 0, 3, <<2, 2>>)>>}

InitLoop ==
    /\ cmd \in {"stream", "extract"}
    /\ listing \in LoopListings
    /\ media_files = get_valid_media_files(listing).paths
    /\ similarity = "default"
    /\ error = "none"
    /\ api = NoApi
    /\ grid_dimension \in (IF cmd = "stream" THEN 1..MaxGridDim ELSE {0})
    /\ ssmi_threshold \in Thresholds
    /\ use_static_sample_rate \in BOOLEAN
    /\ faults_left = 0
    /\ pipe = [i \in Pipelines |-> NewPipe]
    /\ reported = [i \in Pipelines |-> "none"]
    /\ output_frames = EmptyMap
    /\ output_grids = EmptyMap
    /\ grid_writes = <<>>
    /\ phase = "files"
    /\ folders = <<>>
    /\ call = NoCall
    /\ result = BlankCanvas
    /\ listed = {}
    /\ listed_files = <<>>

\* an iteration of a video loop, followed for the first MaxIterations
\* iterations of the loop
GenVideoIteration(i) == Len(pipe[i].trace) < MaxIterations /\ GenVideoStep(i)

ExtractVideoIteration(i) == Len(pipe[i].trace) < MaxIterations /\ ExtractVideoStep(i)

NextLoop ==
    \/ \E i \in Pipelines : StreamOpen(i)
    \/ \E i \in Pipelines : GenVideoIteration(i)
    \/ \E i \in Pipelines : GenGifStep(i)
    \/ \E i \in Pipelines : StreamFinish(i)
    \/ \E i \in Pipelines : ExtractStart(i)
    \/ \E i \in Pipelines : ExtractVideoIteration(i)
    \/ \E i \in Pipelines : ExtractVideoFinish(i)
    \/ \E i \in Pipelines : ExtractGifStep(i)

SpecLoop == InitLoop /\ [][NextLoop]_vars

\* ======================================================================
\* One media file taken through extract_frames and create_grids_from_frames,
\* then through the streaming generator
\* ======================================================================
\* frame contents: all frames alike, three contents in turn, a change at
\* every fifth frame
Patterns == {<<0>>, <<0, 1, 2>>, <<0, 0, 0, 0, 1>>}

\* the frames of index 100 and more differ from the frames before them
LateChange == [k \in 1..(MaxGifIndex + 1) |-> IF k > 100 THEN 1 ELSE 0]

\* one readable media file per directory: videos (one cut short), GIFs,
\* among them one of MaxGifIndex + 1 frames, and a static image
PairListings ==
    {<<Showing(MediaFile(A_MP4, TRUE, 100, MaxFrames, <<4, 3>>), p)>> : p \in Patterns}
        \cup {<<Showing(Truncated(MediaFile(A_MP4, TRUE, 100, MaxFrames, <<4, 3>>), 3), p)>> :
                  p \in Patterns}
        \cup {<<Showing(MediaFile(A_GIF, TRUE, 0, MaxGifFrames, <<2, 2>>), p)>> : p \in Patterns}
        \cup {<<Showing(MediaFile(A_GIF, TRUE, 0, MaxGifIndex + 1, <<2, 2>>), LateChange)>>}
        \cup {<<Showing(MediaFile(B_PNG, TRUE, 0, 1, <<3, 3>>), <<0>>)>>}

InitPair ==
    /\ cmd = "extract"
    /\ listing \in PairListings
    /\ media_files = get_valid_media_files(listing).paths
    /\ similarity = "default"
    /\ error = "none"
    /\ api = NoApi
    /\ grid_dimension = 0
    /\ ssmi_threshold \in Thresholds
    /\ use_static_sample_rate \in BOOLEAN
    /\ listing[1].frame_count > MaxGifFrames + MaxFrames => ~use_static_sample_rate
    /\ faults_left = 0
    /\ pipe = [i \in Pipelines |-> NewPipe]
    /\ reported = [i \in Pipelines |-> "none"]
    /\ output_frames = EmptyMap
    /\ output_grids = EmptyMap
    /\ grid_writes = <<>>
    /\ phase = "files"
    /\ folders = <<>>
    /\ call = NoCall
    /\ result = BlankCanvas
    /\ listed = {}
    /\ listed_files = <<>>

\* main_generate_grids has ended; the output directories are emptied and
\* main_generate_grids_from_media is run on the same input directory with
\* the same grid size, profile and static flag
StreamSameInput ==
    /\ cmd = "extract" /\ phase \in {"done", "aborted"}
    /\ cmd' = "stream"
    /\ phase' = "files"
    /\ pipe' = [i \in Pipelines |-> NewPipe]
    /\ output_frames' = EmptyMap
    /\ output_grids' = EmptyMap
    /\ UNCHANGED <<listing, media_files, ssmi_threshold, use_static_sample_rate, similarity,
                   error, api, grid_dimension, faults_left, grid_writes, folders, reported,
                   callVars>>

NextPair ==
    \/ \E i \in Pipelines : ExtractStart(i)
    \/ \E i \in Pipelines : ExtractVideoStep(i)
    \/ \E i \in Pipelines : ExtractVideoFinish(i)
    \/ \E i \in Pipelines : ExtractGifStep(i)
    \/ \E i \in Pipelines : ReportOutcome(i)
    \/ ExtractionComplete
    \/ StartGrids
    \/ GridsFolder
    \/ StreamSameInput
    \/ \E i \in Pipelines : StreamOpen(i)
    \/ \E i \in Pipelines : GenVideoStep(i)
    \/ \E i \in Pipelines : GenGifStep(i)
    \/ \E i \in Pipelines : StreamFinish(i)

SpecPair == InitPair /\ [][NextPair]_vars

\* ======================================================================
\* Calls of estimate_processing_cost
\* ======================================================================
B_GIF == <<"b", ".", "G", "I", "F">>

\* str.lower on the letters that occur in these names
lower(s) ==
    [k \in 1..Len(s) |->
        CASE s[k] = "G" -> "g"
          [] s[k] = "I" -> "i"
          [] s[k] = "F" -> "f"
          [] OTHER -> s[k]]

\* file_path.lower()[-4:]
last_four(name) == SubSeq(lower(name), Max({1, Len(name) - 3}), Len(name))

\* the files a directory given to estimate_processing_cost may hold: two
\* GIFs of 3 and 5 frames, a video, a PNG image, a text file
CostFiles ==
    {MediaFile(A_GIF, TRUE, 0, 3, <<2, 2>>), MediaFile(B_GIF, TRUE, 0, 5, <<2, 2>>),
     MediaFile(A_MP4, TRUE, 100, 4, <<4, 3>>), MediaFile(B_PNG, TRUE, 0, 1, <<3, 3>>),
     MediaFile(N_TXT, FALSE, 0, 0, <<0, 0>>)}

\* os.listdir(input_dir): up to three of these files in any order
CostListings ==
    {<<>>} \cup {<<f>> : f \in CostFiles}
        \cup {l \in {<<f, g>> : f \in CostFiles, g \in CostFiles} : l[1] # l[2]}
        \cup {l \in {<<f, g, h>> : f \in CostFiles, g \in CostFiles, h \in CostFiles} :
                  l[1] # l[2] /\ l[1] # l[3] /\ l[2] # l[3]}

\* a path: the name of a file, joined with input_dir or bare
PathOf(full, name) == [full |-> full, name |-> name]

\* count_gif_frames(gif_path): Image.open(gif_path).n_frames, 0 when the path
\* names no file or no image; a bare name is resolved against the working
\* directory
count_gif_frames(gif_path, dir, cwd_is_input_dir) ==
    LET found == {k \in 1..Len(dir) :
                     dir[k].name = gif_path.name /\ (gif_path.full \/ cwd_is_input_dir)}
    IN  IF found = {} THEN 0
        ELSE LET f == dir[CHOOSE k \in found : TRUE]
             IN  IF ~(f.exists /\ f.readable) THEN 0
                 ELSE IF last_four(f.name) = <<".", "g", "i", "f">> THEN f.frame_count
                 ELSE IF last_four(f.name) = <<".", "p", "n", "g">> THEN 1
                 ELSE 0

\* "for file in gif_filepaths: frame_count = count_gif_frames(file_path);
\* total_gif_frames += frame_count"
RECURSIVE gif_loop(_, _, _, _)
gif_loop(gif_filepaths, file_path, dir, cwd_is_input_dir) ==
    IF gif_filepaths = <<>> THEN 0
    ELSE count_gif_frames(file_path, dir, cwd_is_input_dir)
             + gif_loop(Tail(gif_filepaths), file_path, dir, cwd_is_input_dir)

InitCost ==
    /\ cmd = "cost"
    /\ listing \in CostListings
    /\ media_files = <<>>
    /\ similarity = "default"
    /\ error = "none"
    /\ api = NoApi
    /\ grid_dimension = 3
    /\ ssmi_threshold = 60
    /\ use_static_sample_rate = FALSE
    /\ faults_left = 0
    /\ pipe = [i \in {} |-> NewPipe]
    /\ reported = [i \in {} |-> "none"]
    /\ listed = {}
    /\ listed_files = <<>>
    /\ output_frames = EmptyMap
    /\ output_grids = EmptyMap
    /\ grid_writes = <<>>
    /\ phase = "done"
    /\ folders = <<>>
    /\ \E b \in BOOLEAN :
         call = [pc |-> "entry", cwd_is_input_dir |-> b, file_path |-> PathOf(FALSE, <<>>),
                 video_filepaths |-> <<>>, image_filepaths |-> <<>>, gif_filepaths |-> <<>>,
                 total_gif_frames |-> 0]
    /\ result = NoMatch

\* the paths of the listed files whose last four characters are in exts
Categorized(exts) ==
    LET names == [k \in 1..Len(listing) |-> PathOf(TRUE, listing[k].name)]
    IN  SelectSeq(names, LAMBDA q : last_four(q.name) \in exts)

\* estimate_processing_cost up to the end of "for file_path in all_files"
CategorizeFiles ==
    /\ cmd = "cost" /\ call.pc = "entry"
    /\ IF Len(listing) < 1
       THEN call' = [call EXCEPT !.pc = "returned"]
       ELSE call' = [call EXCEPT
                        !.pc = "videos",
                        !.video_filepaths =
                            Categorized({<<".", "m", "p", "4">>, <<".", "m", "k", "v">>,
                                         <<".", "a", "v", "i">>, <<".", "m", "o", "v">>,
                                         <<".", "f", "l", "v">>, <<".", "w", "m", "v">>}),
                        !.image_filepaths =
                            Categorized({<<".", "j", "p", "g">>, <<".", "j", "p", "e", "g">>,
                                         <<".", "p", "n", "g">>}),
                        !.gif_filepaths = Categorized({<<".", "g", "i", "f">>}),
                        !.file_path = PathOf(FALSE, listing[Len(listing)].name)]
    /\ UNCHANGED <<cfgVars, grid_dimension, diskVars, gridsVars, pipe, result, listed,
                   listed_files>>

\* "for file_path in video_filepaths"
VideoDurations ==
    /\ cmd = "cost" /\ call.pc = "videos"
    /\ call' = [call EXCEPT
                    !.pc = "gifs",
                    !.file_path = IF call.video_filepaths = <<>> THEN @
                                  ELSE call.video_filepaths[Len(call.video_filepaths)]]
    /\ UNCHANGED <<cfgVars, grid_dimension, diskVars, gridsVars, pipe, result, listed,
                   listed_files>>

\* "for file in gif_filepaths"
GifFrames ==
    /\ cmd = "cost" /\ call.pc = "gifs"
    /\ call' = [call EXCEPT
                    !.pc = "counted",
                    !.total_gif_frames =
                        gif_loop(call.gif_filepaths, call.file_path, listing,
                                 call.cwd_is_input_dir)]
    /\ UNCHANGED <<cfgVars, grid_dimension, diskVars, gridsVars, pipe, result, listed,
                   listed_files>>

NextCost == CategorizeFiles \/ VideoDurations \/ GifFrames

SpecCost == InitCost /\ [][NextCost]_vars

\* ======================================================================
\* Properties of the novelty filter
\* ======================================================================
\* pipeline i samples candidates from a video or a GIF
Sampled(i) == get_file_type_from_extension(media_files[i].name) \in {"video", "gif"}

LastOf(seq) == seq[Len(seq)]

Front(seq) == SubSeq(seq, 1, Len(seq) - 1)

\* the image of the record retained last, NoFrame when none is
ImageOfLast(records) == IF records = <<>> THEN NoFrame ELSE LastOf(records).image

Count(seq, v) == Cardinality({k \in DOMAIN seq : seq[k] = v})

\* C1: with static sampling off, in every video and GIF pipeline (extract_frames
\* and the streaming generator) the reference is at every moment the frame
\* retained last (none before the first keep), so it changes exactly when a
\* candidate is kept; and the reference a candidate was compared with is the
\* frame retained last before it, never a discarded frame.
C1_ReferenceIsLastRetained ==
    \A i \in DOMAIN pipe :
        (~use_static_sample_rate /\ Sampled(i)) =>
            /\ pipe[i].most_recent_frame = ImageOfLast(pipe[i].retained)
            /\ pipe[i].trace # <<>> =>
                 pipe[i].reference =
                     ImageOfLast(IF LastOf(pipe[i].trace) = "kept"
                                 THEN Front(pipe[i].retained) ELSE pipe[i].retained)

\* a third candidate is kept after the second was discarded: it was compared
\* with the first, which differs from the frame seen last
C1_Witness ==
    \E i \in DOMAIN pipe :
        /\ ~use_static_sample_rate /\ Sampled(i)
        /\ Len(pipe[i].trace) = 3
        /\ pipe[i].trace[2] = "similar" /\ pipe[i].trace[3] = "kept"
        /\ pipe[i].reference = pipe[i].retained[1].image
        /\ pipe[i].most_recent_frame = pipe[i].candidate

\* C2: with static sampling off and a reference present, a candidate whose score
\* against the reference is at least the threshold is discarded (equality
\* counts as similar), and one whose score is strictly below the threshold is
\* retained; extract_frames alone can then lose it, when the write of the
\* frame file fails.
C2_SimilarityGate ==
    \A i \in DOMAIN pipe :
        (~use_static_sample_rate /\ Sampled(i) /\ pipe[i].trace # <<>>
            /\ pipe[i].reference # NoFrame) =>
            LET score == compare_ssim(pipe[i].reference.px, pipe[i].candidate.px)
                outcome == LastOf(pipe[i].trace)
            IN  /\ score >= ssmi_threshold =>
                     /\ outcome = "similar"
                     /\ ImageOfLast(pipe[i].retained) # pipe[i].candidate
                /\ score < ssmi_threshold =>
                     IF outcome = "kept"
                     THEN ImageOfLast(pipe[i].retained) = pipe[i].candidate
                     ELSE outcome = "lost" /\ cmd = "extract" /\ faults_left < MaxFaults

\* a candidate whose score equals the threshold has been discarded
C2_Witness ==
    \E i \in DOMAIN pipe :
        /\ ~use_static_sample_rate /\ Sampled(i)
        /\ pipe[i].trace # <<>> /\ pipe[i].reference # NoFrame
        /\ compare_ssim(pipe[i].reference.px, pipe[i].candidate.px) = ssmi_threshold
        /\ LastOf(pipe[i].trace) = "similar"

\* C3: the first candidate of every file is retained, for every threshold and
\* both settings of the static flag: it is frame 0 and the first record kept;
\* extract_frames alone can lose it, when the write of the frame file fails.
C3_FirstCandidateRetained ==
    \A i \in DOMAIN pipe :
        pipe[i].trace # <<>> =>
            IF pipe[i].trace[1] = "kept"
            THEN pipe[i].retained # <<>> /\ pipe[i].retained[1].image.id = 0
            ELSE pipe[i].trace[1] = "lost" /\ cmd = "extract" /\ faults_left < MaxFaults

\* static sampling off, the lowest threshold: the first candidate was kept
\* and the second, compared with it, discarded
C3_Witness ==
    \E i \in DOMAIN pipe :
        /\ ~use_static_sample_rate /\ Sampled(i)
        /\ \A t \in Thresholds : ssmi_threshold <= t
        /\ Len(pipe[i].trace) = 2
        /\ pipe[i].trace[1] = "kept" /\ pipe[i].trace[2] = "similar"
        /\ pipe[i].retained[1].image.id = 0

\* C4: with static sampling on no candidate is discarded as similar and the
\* retained frames are the candidates, all of them unless extract_frames
\* failed to write one.
C4_StaticKeepsAll ==
    \A i \in DOMAIN pipe :
        use_static_sample_rate =>
            /\ Count(pipe[i].trace, "similar") = 0
            /\ Len(pipe[i].retained) = Count(pipe[i].trace, "kept")
            /\ Len(pipe[i].retained) + Count(pipe[i].trace, "lost") = Len(pipe[i].trace)
            /\ Count(pipe[i].trace, "lost") <= MaxFaults - faults_left
            /\ Count(pipe[i].trace, "lost") > 0 => cmd = "extract"

\* static sampling on: a candidate identical to the frame before it was kept
C4_Witness ==
    \E i \in DOMAIN pipe :
        /\ use_static_sample_rate /\ Sampled(i)
        /\ Len(pipe[i].trace) >= 2
        /\ pipe[i].reference # NoFrame
        /\ pipe[i].candidate.px = pipe[i].reference.px
        /\ LastOf(pipe[i].trace) = "kept"
        /\ Len(pipe[i].retained) = Len(pipe[i].trace)

\* ======================================================================
\* Properties of the grid composer
\* ======================================================================
CeilDiv(a, b) == (a + b - 1) \div b

\* the grid files pipeline i wrote (0: process_images_in_chunks) under dir, in
\* write order
WritesOf(by, dir) == SelectSeq(grid_writes, LAMBDA w : w.by = by /\ w.dir = dir)

RECURSIVE Members(_)
\* the images pasted into the grids of W, concatenated in write order
Members(W) ==
    IF W = <<>> THEN <<>>
    ELSE [k \in 1..Len(W[1].canvas.pastes) |-> W[1].canvas.pastes[k].img]
             \o Members(Tail(W))

\* W holds n grid files of distinct names, full but for the last, made of
\* the images imgs in order
Batched(W, imgs, n, full) ==
    /\ Len(W) = n
    /\ Cardinality({W[k].name : k \in 1..Len(W)}) = n
    /\ \A k \in 1..(Len(W) - 1) : Len(W[k].canvas.pastes) = full
    /\ Members(W) = imgs

\* the pipelines that extract into the frame folder d
Owners(d) == {i \in DOMAIN pipe : FramesDir(media_files[i].name) = d}

\* a streaming pipeline between two iterations or at its end, no write failed
StreamOk(i) == cmd = "stream" /\ pipe[i].pc \notin {"queued", "failed"}

\* C5 as the specification states it, for every grid dimension
C5_AsStated ==
    \A i \in DOMAIN pipe :
        StreamOk(i) =>
            LET N2 == grid_dimension * grid_dimension
                sealed == pipe[i].saved_grids
            IN  /\ Len(pipe[i].retained) = N2 =>
                     /\ Len(sealed) = 1 /\ sealed[1].num_images = N2
                     /\ pipe[i].collected = <<>>
                /\ Len(pipe[i].retained) = N2 + 1 =>
                     IF pipe[i].pc = "done"
                     THEN /\ Len(sealed) = 2 /\ sealed[1].num_images = N2
                          /\ sealed[2].num_images = 1
                     ELSE /\ Len(sealed) = 1 /\ sealed[1].num_images = N2
                          /\ Len(pipe[i].collected) = 1

\* C5: in the streaming generator with grid dimension N, once N*N frames are
\* retained exactly one full batch is sealed and the buffer is empty, and the
\* end-of-stream flush adds nothing; for N >= 2, once N*N+1 frames are retained
\* one full batch is sealed and one frame is buffered, which the end-of-stream
\* flush emits as a batch of size 1; for N = 1 the second frame is a full
\* batch of its own, sealed at once.
C5_BatchBoundary ==
    \A i \in DOMAIN pipe :
        StreamOk(i) =>
            LET N2 == grid_dimension * grid_dimension
                sealed == pipe[i].saved_grids
            IN  /\ Len(pipe[i].retained) = N2 =>
                     /\ Len(sealed) = 1 /\ sealed[1].num_images = N2
                     /\ pipe[i].collected = <<>>
                     /\ Len(WritesOf(i, StreamDir(media_files[i].name))) = 1
                /\ (Len(pipe[i].retained) = N2 + 1 /\ grid_dimension >= 2) =>
                     IF pipe[i].pc = "done"
                     THEN /\ Len(sealed) = 2 /\ sealed[1].num_images = N2
                          /\ sealed[2].num_images = 1
                          /\ pipe[i].collected = <<>>
                     ELSE /\ Len(sealed) = 1 /\ sealed[1].num_images = N2
                          /\ Len(pipe[i].collected) = 1
                /\ (Len(pipe[i].retained) = 2 /\ grid_dimension = 1) =>
                     /\ Len(sealed) = 2 /\ pipe[i].collected = <<>>

\* N = 2 and five retained frames: the stream has ended with a batch of four
\* and a batch of one
C5_Witness ==
    \E i \in DOMAIN pipe :
        /\ cmd = "stream" /\ pipe[i].pc = "done"
        /\ grid_dimension = 2 /\ Len(pipe[i].retained) = 5
        /\ Len(pipe[i].saved_grids) = 2
        /\ pipe[i].saved_grids[2].num_images = 1

\* C6: M retained frames and grid dimension N give ceil(M / N^2) grid files of
\* distinct names, all but the last of N^2 members, whose members in write
\* order are the retained frames in order. For a streaming pipeline that ended
\* without a failed write M counts its retained frames; for
\* process_images_in_chunks M counts the frames of the folder, taken in the
\* sorted order of their names, which is the order of retention when one
\* media file filled the folder.
C6_BatchCount ==
    /\ \A i \in DOMAIN pipe :
         (cmd = "stream" /\ pipe[i].pc = "done") =>
             Batched(WritesOf(i, StreamDir(media_files[i].name)),
                     ImagesOf(pipe[i].retained),
                     CeilDiv(Len(pipe[i].retained), grid_dimension * grid_dimension),
                     grid_dimension * grid_dimension)
    /\ phase = "done" =>
         \A d \in DOMAIN output_frames :
             /\ \E sorted \in get_image_files(output_frames[d]) :
                  Batched(WritesOf(0, GridsDir(d)),
                          [k \in 1..Len(sorted) |-> output_frames[d][sorted[k]]],
                          CeilDiv(Len(sorted), grid_dimension * grid_dimension),
                          grid_dimension * grid_dimension)
             /\ \A i \in Owners(d) :
                  Owners(d) = {i} =>
                      Members(WritesOf(0, GridsDir(d))) = ImagesOf(pipe[i].retained)

\* five frames extracted from one file and N = 2: a grid of four and a grid
\* of one
C6_Witness ==
    /\ phase = "done" /\ grid_dimension = 2
    /\ \E i \in DOMAIN pipe :
         LET W == WritesOf(0, GridsDir(FramesDir(media_files[i].name)))
         IN  /\ Len(pipe[i].retained) = 5
             /\ Len(W) = 2
             /\ Len(W[1].canvas.pastes) = 4 /\ Len(W[2].canvas.pastes) = 1

\* the cells (row, column) of a canvas of the given side
Cells(side) == (0..(side - 1)) \X (0..(side - 1))

\* C7: create_grid with M >= 1 images of the frame size and maximum dimension
\* N returns a square canvas of side min(N, ceil(sqrt(M))) cells; when
\* M <= N^2 the k-th image (from 0) is pasted at row k div side and column
\* k mod side, inside the canvas, and side^2 - M cells stay white.
C7_GridLayout ==
    call.num_images >= 1 =>
        LET M == call.num_images
            N == call.grid_dimension
            w == call.frame_width
            h == call.frame_height
            side == result.size[1] \div w
            covered == {<<result.pastes[k].y \div h, result.pastes[k].x \div w>> :
                           k \in 1..Len(result.pastes)}
        IN  /\ result.size = <<side * w, side * h>>
            /\ side >= 1
            /\ IF N * N < M THEN side = N
               ELSE side <= N /\ side * side >= M /\ (side - 1) * (side - 1) < M
            /\ M <= N * N =>
                 /\ Len(result.pastes) = M
                 /\ \A k \in 1..M :
                      /\ result.pastes[k].img.id = k - 1
                      /\ result.pastes[k].x = ((k - 1) % side) * w
                      /\ result.pastes[k].y = ((k - 1) \div side) * h
                      /\ result.pastes[k].x + result.pastes[k].img.size[1] <= result.size[1]
                      /\ result.pastes[k].y + result.pastes[k].img.size[2] <= result.size[2]
                 /\ Cardinality(Cells(side) \ covered) = side * side - M

\* five images and N = 3: a canvas of side 3 with four white cells
C7_Witness ==
    /\ call.num_images = 5 /\ call.grid_dimension = 3
    /\ result.size = <<3 * call.frame_width, 3 * call.frame_height>>
    /\ Len(result.pastes) = 5

\* the name written for the batch of records batch
NameOfBatch(batch) ==
    grid_filename(replace_colon(batch[1].start_time),
                  replace_colon(batch[Len(batch)].end_time))

\* the k-th batch of the records retained, N2 to a batch
BatchOf(retained, k, N2) ==
    SubSeq(retained, (k - 1) * N2 + 1, Lesser(k * N2, Len(retained)))

\* C8 as the specification states it: every grid file is named after the
\* start_time of the first frame and the end_time of the last frame of its
\* batch, in the streaming generator and in process_images_in_chunks (there
\* for the folders one media file filled)
C8_AsStated ==
    /\ \A i \in DOMAIN pipe :
         cmd = "stream" =>
             LET W == WritesOf(i, StreamDir(media_files[i].name))
             IN  \A k \in 1..Len(W) :
                     W[k].name = NameOfBatch(BatchOf(pipe[i].retained, k,
                                                     grid_dimension * grid_dimension))
    /\ cmd = "extract" =>
         \A d \in DOMAIN output_frames :
             \A i \in Owners(d) :
                 Owners(d) = {i} =>
                     LET W == WritesOf(0, GridsDir(d))
                     IN  \A k \in 1..Len(W) :
                             W[k].name = NameOfBatch(BatchOf(pipe[i].retained, k,
                                                  grid_dimension * grid_dimension))

\* the part of C8 that process_images_in_chunks satisfies
C8_ChunkNames ==
    cmd = "extract" =>
        \A d \in DOMAIN output_frames :
            \A i \in Owners(d) :
                Owners(d) = {i} =>
                    LET W == WritesOf(0, GridsDir(d))
                    IN  \A k \in 1..Len(W) :
                            W[k].name = NameOfBatch(BatchOf(pipe[i].retained, k,
                                                 grid_dimension * grid_dimension))

\* C9: no grid is written for an empty batch. flush_grid with an empty buffer
\* writes nothing and returns no metadata; every grid file written and every
\* metadata entry has at least one member; a streaming pipeline that retained
\* no frame and a frame folder without frames have no grid file.
C9_NoEmptyGrid ==
    /\ \A n \in 1..MaxGridDim :
         ~flush_grid(<<>>, n).wrote /\ flush_grid(<<>>, n).meta = <<>>
    /\ \A k \in 1..Len(grid_writes) : Len(grid_writes[k].canvas.pastes) >= 1
    /\ \A d \in DOMAIN output_grids : \A n \in DOMAIN output_grids[d] :
         Len(output_grids[d][n].pastes) >= 1
    /\ \A i \in DOMAIN pipe :
         /\ \A k \in 1..Len(pipe[i].saved_grids) : pipe[i].saved_grids[k].num_images >= 1
         /\ (cmd = "stream" /\ pipe[i].retained = <<>>) =>
              /\ pipe[i].saved_grids = <<>>
              /\ WritesOf(i, StreamDir(media_files[i].name)) = <<>>
    /\ \A d \in DOMAIN output_frames :
         (\A n \in DOMAIN output_frames[d] : ~EndsWith(n, JPG)) =>
             WritesOf(0, GridsDir(d)) = <<>>

\* a streaming pipeline has ended without having retained a frame
C9_Witness ==
    \E i \in DOMAIN pipe :
        /\ cmd = "stream" /\ pipe[i].pc = "done"
        /\ media_files[i].readable /\ Sampled(i)
        /\ pipe[i].retained = <<>>
        /\ grid_writes = <<>>

\* C10 as the specification states it: the members of every grid file come
\* from one media file
C10_AsStated ==
    \A k \in 1..Len(grid_writes) :
        \A p, q \in 1..Len(grid_writes[k].canvas.pastes) :
            grid_writes[k].canvas.pastes[p].img.file
                = grid_writes[k].canvas.pastes[q].img.file

\* the part of C10 that the streaming generator satisfies
C10_StreamGrids ==
    cmd = "stream" =>
        \A k \in 1..Len(grid_writes) :
            \A p \in 1..Len(grid_writes[k].canvas.pastes) :
                grid_writes[k].canvas.pastes[p].img.file = grid_writes[k].by

\* ======================================================================
\* Properties of the order of the frames
\* ======================================================================
\* the seconds a timestamp H:MM:SS (or H-MM-SS) stands for
SecondsOf(t) ==
    LET L == Len(t)
    IN  3600 * ToInt(SubSeq(t, 1, L - 6)) + 60 * ToInt(SubSeq(t, L - 4, L - 3))
            + ToInt(SubSeq(t, L - 1, L))

\* the number n of a name frame_<n>.jpg, -1 for any other name
PlainNumber(name) ==
    LET digits == SubSeq(name, Len(FRAME_PREFIX) + 1, Len(name) - Len(JPG))
    IN  IF /\ HasAt(name, 1, FRAME_PREFIX) /\ EndsWith(name, JPG)
           /\ digits # <<>> /\ \A k \in 1..Len(digits) : IsDigit(digits[k])
        THEN ToInt(digits) ELSE 0 - 1

\* C11: the frames handed to the grid composer are in strictly increasing
\* start_time order. Every pipeline retains its frames in strictly increasing
\* start_time order; once extraction is complete, get_image_files of a frame
\* folder that one media file filled returns the frames in the order of their
\* retention; and get_image_files returns the .jpg names of a folder, each
\* once, ordered so that numbers compare as numbers: frame_2 before frame_10,
\* and frames with timestamps by their start time.
C11_Chronological ==
    /\ \A i \in DOMAIN pipe :
         \A k \in 1..(Len(pipe[i].retained) - 1) :
             SecondsOf(pipe[i].retained[k].start_time)
                 < SecondsOf(pipe[i].retained[k + 1].start_time)
    /\ (cmd = "extract" /\ phase = "extracted") =>
         \A d \in DOMAIN output_frames :
             \A i \in Owners(d) :
                 Owners(d) = {i} =>
                     \A sorted \in get_image_files(output_frames[d]) :
                         [k \in 1..Len(sorted) |-> output_frames[d][sorted[k]]]
                             = ImagesOf(pipe[i].retained)
    /\ (cmd = "list" /\ listed # {}) =>
         /\ {listed_files[k] : k \in 1..Len(listed_files)}
                = {n \in listed : EndsWith(n, JPG)}
         /\ \A p, q \in 1..Len(listed_files) :
              p < q =>
                  LET a == listed_files[p]
                      b == listed_files[q]
                  IN  /\ a # b
                      /\ (PlainNumber(a) >= 0 /\ PlainNumber(b) >= 0) =>
                           PlainNumber(a) < PlainNumber(b)
                      /\ (extract_timestamps(a) # NoMatch
                             /\ extract_timestamps(b) # NoMatch) =>
                           SecondsOf(extract_timestamps(a)[1])
                               < SecondsOf(extract_timestamps(b)[1])

\* a folder with frame_2.jpg, frame_10.jpg and the frames that start at
\* 9:59:58 and at 10:00:00 has been listed
C11_Witness ==
    /\ cmd = "list"
    /\ \E p, q \in 1..Len(listed_files) :
         /\ p < q
         /\ PlainNumber(listed_files[p]) = 2 /\ PlainNumber(listed_files[q]) = 10
    /\ \E p, q \in 1..Len(listed_files) :
         /\ p < q
         /\ extract_timestamps(listed_files[p]) # NoMatch
         /\ extract_timestamps(listed_files[q]) # NoMatch
         /\ SecondsOf(extract_timestamps(listed_files[p])[1]) = 35998
         /\ SecondsOf(extract_timestamps(listed_files[q])[1]) = 36000

\* ======================================================================
\* Properties of failure handling
\* ======================================================================
\* C12 as the specification states it: the failure of one file's pipeline
\* does not abort the run. The run leaves its per-file phase only when every
\* pipeline has ended, a pipeline that failed keeps no other from ending, and
\* when create_grids_from_frames stops at a folder that raised, no other
\* folder is left without its grids.
C12_AsStated ==
    /\ phase # "files" => \A i \in DOMAIN pipe : Finished(i)
    /\ \A i, j \in DOMAIN pipe :
         (pipe[i].pc = "failed" /\ pipe[j].pc = "queued" /\ phase = "files"
             /\ \A k \in 1..(j - 1) : Finished(k)) =>
             ENABLED (StreamOpen(j) \/ ExtractStart(j))
    /\ phase = "aborted" => Len(folders) <= 1

\* the part of C12 that main_extract_frames and
\* main_generate_grids_from_media satisfy
C12_MainsIsolate ==
    /\ phase # "files" => \A i \in DOMAIN pipe : Finished(i)
    /\ \A i, j \in DOMAIN pipe :
         (pipe[i].pc = "failed" /\ pipe[j].pc = "queued" /\ phase = "files"
             /\ \A k \in 1..(j - 1) : Finished(k)) =>
             ENABLED (StreamOpen(j) \/ ExtractStart(j))

\* the output subdirectory of pipeline i is there and holds no file
EmptyDirOf(i) ==
    IF cmd = "extract"
    THEN LET d == FramesDir(media_files[i].name)
         IN  d \in DOMAIN output_frames /\ DOMAIN output_frames[d] = {}
    ELSE LET d == StreamDir(media_files[i].name)
         IN  d \in DOMAIN output_grids /\ DOMAIN output_grids[d] = {}

\* C13 as the specification states it: once a pipeline that retained no frame
\* has ended, by returning or by raising, its output subdirectory does not
\* exist as an empty directory
C13_AsStated ==
    \A i \in DOMAIN pipe :
        (Finished(i) /\ pipe[i].retained = <<>>) => ~EmptyDirOf(i)

\* no other media file of the run is given the output subdirectory of i
SoleOwner(i) ==
    \A j \in DOMAIN pipe :
        j # i => /\ FramesDir(media_files[j].name) # FramesDir(media_files[i].name)
                 /\ StreamDir(media_files[j].name) # StreamDir(media_files[i].name)

\* the part of C13 that the video pipelines and the streaming generator
\* satisfy, for a file that shares its subdirectory with no other
C13_VideoCleanup ==
    \A i \in DOMAIN pipe :
        (Finished(i) /\ pipe[i].retained = <<>> /\ SoleOwner(i)
            /\ (cmd = "stream"
                  \/ get_file_type_from_extension(media_files[i].name) = "video")) =>
            ~EmptyDirOf(i)

\* no frame file and no grid holds a frame of media file i
NothingWrittenFor(i) ==
    /\ \A d \in DOMAIN output_frames : \A n \in DOMAIN output_frames[d] :
         output_frames[d][n].file # i
    /\ \A k \in 1..Len(grid_writes) :
         \A p \in 1..Len(grid_writes[k].canvas.pastes) :
             grid_writes[k].canvas.pastes[p].img.file # i

\* C14 as the specification states it: a media file that exists and cannot
\* be opened or decoded (video, GIF or static image) yields zero frames: no
\* frame is retained, no frame file and no grid is written for it
C14_AsStated ==
    \A i \in DOMAIN pipe :
        (media_files[i].exists /\ ~media_files[i].readable) =>
            pipe[i].retained = <<>> /\ NothingWrittenFor(i)

\* the part of C14 that holds: unreadable videos and GIFs, and unreadable
\* images in the streaming generator
C14_VideoGifUnreadable ==
    \A i \in DOMAIN pipe :
        (media_files[i].exists /\ ~media_files[i].readable
            /\ (Sampled(i) \/ cmd = "stream")) =>
            pipe[i].retained = <<>> /\ NothingWrittenFor(i)

\* C15: extract_frames called for a media path that does not exist raises
\* FileNotFoundError before it makes any directory or file: the step in which
\* the call starts ends it as failed and leaves the output tree as it was.
C15_MissingInputLeavesTree ==
    [][\A i \in DOMAIN pipe :
          (cmd = "extract" /\ ~media_files[i].exists
              /\ pipe[i].pc = "queued" /\ pipe'[i].pc # "queued") =>
              /\ pipe'[i].pc = "failed"
              /\ pipe'[i].retained = <<>>
              /\ output_frames' = output_frames
              /\ output_grids' = output_grids]_vars

\* extract_frames has failed for a file that is not there, and there is no
\* frame folder
C15_Witness ==
    \E i \in DOMAIN pipe :
        /\ cmd = "extract" /\ ~media_files[i].exists
        /\ pipe[i].pc = "failed"
        /\ FramesDir(media_files[i].name) \notin DOMAIN output_frames

\* ======================================================================
\* Properties of the concurrent pipelines
\* ======================================================================
\* the output subdirectory the command gives media file i
OutputDirOf(i) ==
    IF cmd = "extract" THEN FramesDir(media_files[i].name)
    ELSE StreamDir(media_files[i].name)

\* C16 as the specification states it: two distinct media files of a run that
\* have both been started have distinct output subdirectories, and a frame
\* folder holds the frames of one media file only
C16_AsStated ==
    /\ \A i, j \in DOMAIN pipe :
         (i # j /\ pipe[i].pc # "queued" /\ pipe[j].pc # "queued") =>
             OutputDirOf(i) # OutputDirOf(j)
    /\ \A d \in DOMAIN output_frames :
         \A n, m \in DOMAIN output_frames[d] :
             output_frames[d][n].file = output_frames[d][m].file

\* the part of C16 that holds: a subdirectory given to one media file only
\* holds nothing but that file's frames and grids
C16_SoleOwnerFolders ==
    \A i \in DOMAIN pipe :
        SoleOwner(i) =>
            /\ OutputDirOf(i) \in DOMAIN output_frames =>
                 \A n \in DOMAIN output_frames[OutputDirOf(i)] :
                     output_frames[OutputDirOf(i)][n].file = i
            /\ \A k \in 1..Len(grid_writes) :
                 (cmd = "stream" /\ grid_writes[k].dir = OutputDirOf(i)) =>
                     grid_writes[k].by = i

\* the pipeline of media file i failed: it raised, or its input is missing or
\* cannot be opened
PipelineFailed(i) ==
    pipe[i].pc = "failed" \/ ~media_files[i].exists \/ ~media_files[i].readable

\* C17 as the specification states it, in its safety part: main_extract_frames
\* reports an outcome only for a pipeline that has ended and never changes
\* it, a file whose pipeline failed (unreadable or missing input, or an
\* exception) is reported as failed, and the run-complete message comes only
\* after every file has been reported
C17_AsStated ==
    /\ \A i \in DOMAIN pipe :
         reported[i] # "none" =>
             /\ Finished(i)
             /\ PipelineFailed(i) => reported[i] = "failed"
    /\ (cmd = "extract" /\ phase # "files") =>
         \A i \in DOMAIN pipe : reported[i] # "none"

\* the part of C17 that holds: the outcome reported is whether
\* future.result() returned or raised, and the run-complete message comes
\* after all reports
C17_ReportsResult ==
    /\ \A i \in DOMAIN pipe :
         reported[i] # "none" => Finished(i) /\ reported[i] = pipe[i].pc
    /\ (cmd = "extract" /\ phase # "files") =>
         \A i \in DOMAIN pipe : reported[i] # "none"

\* ======================================================================
\* Properties of the frame sources
\* ======================================================================
\* pipeline i decodes a video that opens and whose frames can all be read
\* (CAP_PROP_FPS is modelled in hundredths of a frame per second)
ReadableVideo(i) ==
    /\ get_file_type_from_extension(media_files[i].name) = "video"
    /\ media_files[i].exists /\ media_files[i].readable
    /\ media_files[i].decodable = media_files[i].frame_count

\* floor(i / f) for frame index i and f = fps / 100
FloorSeconds(i, fps) == (i * 100) \div fps

\* the candidates of a readable video are the indices 0, s, 2s, ... below F
\* with s = round(f * I), all of them once the pipeline is done
VideoCandidates(i) ==
    LET f == media_files[i]
        s == RoundHalfEven(f.fps * SAMPLING_INTERVAL, 100)
    IN  /\ pipe[i].trace # <<>> =>
             /\ pipe[i].candidate.id = s * (Len(pipe[i].trace) - 1)
             /\ pipe[i].candidate.id < f.frame_count
        /\ pipe[i].pc = "done" => Len(pipe[i].trace) = CeilDiv(f.frame_count, s)

\* the five timestamp pairs of the scenario
ScenarioStamps ==
    [k \in 1..5 |-> <<str_timedelta(2 * (k - 1)), str_timedelta(2 * k)>>]

\* with static sampling on and no frame lost, the scenario video yields the
\* five pairs (0:00:00,0:00:02) ... (0:00:08,0:00:10)
ScenarioHolds(i) ==
    (media_files[i] = ScenarioVideo /\ use_static_sample_rate /\ pipe[i].pc = "done"
        /\ Count(pipe[i].trace, "lost") = 0) =>
        [k \in 1..Len(pipe[i].retained) |->
            <<pipe[i].retained[k].start_time, pipe[i].retained[k].end_time>>]
            = ScenarioStamps

\* C18 as the specification states it: the candidate at index i carries
\* (floor(i / f), floor(i / f) + I) formatted H:MM:SS
C18_AsStated ==
    \A i \in DOMAIN pipe :
        ReadableVideo(i) =>
            /\ VideoCandidates(i)
            /\ \A k \in 1..Len(pipe[i].retained) :
                 LET r == pipe[i].retained[k]
                     t == FloorSeconds(r.image.id, media_files[i].fps)
                 IN  /\ r.start_time = str_timedelta(t)
                     /\ r.end_time = str_timedelta(t + SAMPLING_INTERVAL)
            /\ ScenarioHolds(i)

\* C18: for a readable video with frame rate f, F frames and sampling
\* interval I the candidates are the indices 0, s, 2s, ... below F with
\* s = round(f * I); the candidate at index i carries (t, t + I) formatted
\* H:MM:SS, where t is i / f rounded to two decimals and then truncated to
\* whole seconds: t = floor(i / f), except that t = floor(i / f) + 1 when
\* i / f lies within 0.005 below the next whole second. With f = 30, F = 300,
\* I = 2 and static sampling on the retained frames are (0:00:00,0:00:02),
\* (0:00:02,0:00:04), (0:00:04,0:00:06), (0:00:06,0:00:08), (0:00:08,0:00:10).
C18_VideoSampling ==
    \A i \in DOMAIN pipe :
        ReadableVideo(i) =>
            /\ VideoCandidates(i)
            /\ \A k \in 1..Len(pipe[i].retained) :
                 LET r == pipe[i].retained[k]
                     fps == media_files[i].fps
                     floor_ == FloorSeconds(r.image.id, fps)
                     \* how far i / f lies below the next whole second, in
                     \* units of 1 / (100 * fps) seconds
                     gap == (floor_ + 1) * 100 * fps - r.image.id * 10000
                     t == IF 2 * gap <= fps THEN floor_ + 1 ELSE floor_
                 IN  /\ r.start_time = str_timedelta(t)
                     /\ r.end_time = str_timedelta(t + SAMPLING_INTERVAL)
            /\ ScenarioHolds(i)

\* the scenario video has been sampled to its end with static sampling on:
\* five frames are retained, the last one of frame 240
C18_Witness ==
    \E i \in DOMAIN pipe :
        /\ media_files[i] = ScenarioVideo /\ use_static_sample_rate
        /\ pipe[i].pc = "done"
        /\ Len(pipe[i].retained) = 5
        /\ pipe[i].retained[5].image.id = 240
        /\ pipe[i].retained[5].end_time = <<"0", ":", "0", "0", ":", "1", "0">>

\* pipeline i handles a static image that is there and can be decoded
ReadableImage(i) ==
    /\ get_file_type_from_extension(media_files[i].name) = "image"
    /\ media_files[i].exists /\ media_files[i].readable

\* the grid files written for the static image of pipeline i: by the
\* streaming generator, or by process_images_in_chunks for its frame folder
GridsOfImage(i) ==
    IF cmd = "stream" THEN WritesOf(i, StreamDir(media_files[i].name))
    ELSE WritesOf(0, GridsDir(FramesDir(media_files[i].name)))

\* the pipeline of the image is done and, in the extract path, its folder
\* has been gridded
ImageGridded(i) ==
    /\ ReadableImage(i) /\ SoleOwner(i) /\ pipe[i].pc = "done"
    /\ cmd = "extract" => phase = "done"

\* one grid of one cell holding the one retained frame, named after stamp
OneCellGrid(i, stamp) ==
    LET W == GridsOfImage(i)
    IN  /\ Len(pipe[i].retained) = 1
        /\ Len(W) = 1
        /\ W[1].name = grid_filename(replace_colon(stamp), replace_colon(stamp))
        /\ W[1].canvas.size = media_files[i].size
        /\ Len(W[1].canvas.pastes) = 1
        /\ W[1].canvas.pastes[1].img = pipe[i].retained[1].image
        /\ W[1].canvas.pastes[1].x = 0 /\ W[1].canvas.pastes[1].y = 0

\* C19 as the specification states it: the one frame of a static image
\* carries the pair (00:00:00, 00:00:00), in both paths
C19_AsStated ==
    \A i \in DOMAIN pipe :
        ImageGridded(i) =>
            /\ OneCellGrid(i, <<"0", "0", ":", "0", "0", ":", "0", "0">>)
            /\ pipe[i].retained[1].start_time = <<"0", "0", ":", "0", "0", ":", "0", "0">>
            /\ pipe[i].retained[1].end_time = <<"0", "0", ":", "0", "0", ":", "0", "0">>

\* C19: a single static image yields exactly one retained frame and exactly
\* one grid, of one cell, for every grid dimension N >= 1 and every
\* threshold. Its timestamp pair is (00:00:00, 00:00:00) in the streaming
\* generator; extract_frames writes it as frame_0-00-00_0-00-00.jpg, the pair
\* (0:00:00, 0:00:00), and its grid is named after that.
C19_SingleImage ==
    \A i \in DOMAIN pipe :
        ImageGridded(i) =>
            IF cmd = "stream"
            THEN /\ OneCellGrid(i, <<"0", "0", ":", "0", "0", ":", "0", "0">>)
                 /\ pipe[i].retained[1].start_time
                        = <<"0", "0", ":", "0", "0", ":", "0", "0">>
                 /\ pipe[i].retained[1].end_time
                        = <<"0", "0", ":", "0", "0", ":", "0", "0">>
                 /\ Len(pipe[i].saved_grids) = 1
                 /\ pipe[i].saved_grids[1].num_images = 1
            ELSE LET d == FramesDir(media_files[i].name)
                 IN  /\ OneCellGrid(i, <<"0", ":", "0", "0", ":", "0", "0">>)
                     /\ DOMAIN output_frames[d] = {IMAGE_FRAME_FILENAME}
                     /\ extract_timestamps(IMAGE_FRAME_FILENAME)
                            = <<replace_colon(<<"0", ":", "0", "0", ":", "0", "0">>),
                                replace_colon(<<"0", ":", "0", "0", ":", "0", "0">>)>>
                     /\ output_frames[d][IMAGE_FRAME_FILENAME]
                            = pipe[i].retained[1].image

\* a static image has been gridded with N = MaxGridDim: one grid of one cell
C19_Witness ==
    \E i \in DOMAIN pipe :
        /\ ImageGridded(i) /\ grid_dimension = MaxGridDim
        /\ Len(GridsOfImage(i)) = 1
        /\ GridsOfImage(i)[1].canvas.size = media_files[i].size

\* pipeline i handles an animated GIF that is there and can be opened
ReadableGif(i) ==
    /\ get_file_type_from_extension(media_files[i].name) = "gif"
    /\ media_files[i].exists /\ media_files[i].readable

\* the text 00:00:<n>, n zero-padded to two digits
GifStamp(n) == <<"0", "0", ":", "0", "0", ":">> \o Pad2(n)

C21_UnknownProfileAborts ==
    (similarity \notin SimilarityProfiles /\ phase # "entry") =>
        /\ phase = "raised"
        /\ error \in {"KeyError", "FileNotFoundError"}
        /\ error = "FileNotFoundError" => (cmd = "stream" /\ listing = <<>>)
        /\ DOMAIN pipe = {}
        /\ media_files = <<>>
        /\ output_frames = EmptyMap /\ output_grids = EmptyMap
        /\ grid_writes = <<>>

\* main_extract_frames was given an unknown profile and a directory that
\* holds a media file: it raised KeyError
C21_Witness ==
    /\ cmd = "extract" /\ similarity \notin SimilarityProfiles
    /\ ~get_valid_media_files(listing).none
    /\ phase = "raised" /\ error = "KeyError"
    /\ DOMAIN pipe = {}

\* the only thing that can go wrong for the pipeline of file i is a write:
\* the file is there, has a media extension, opens, and shares its
\* subdirectory with no other file
OnlyWritesFail(i) ==
    /\ get_file_type_from_extension(media_files[i].name) # Unsupported
    /\ media_files[i].exists /\ media_files[i].readable
    /\ SoleOwner(i)

\* C22 as the specification states it: when persisting a frame or a grid
\* fails the pipeline of the file warns and continues with the next frame or
\* batch, so a failed write never ends the pipeline of a file
C22_AsStated ==
    \A i \in DOMAIN pipe :
        OnlyWritesFail(i) => pipe[i].pc # "failed"

\* the part of C22 that extract_frames_from_video satisfies: cv2.imwrite
\* returns False, the loop warns and goes on, and the frames written before
\* are still in the folder
C22_VideoFrameLost ==
    \A i \in DOMAIN pipe :
        (cmd = "extract" /\ OnlyWritesFail(i)
            /\ get_file_type_from_extension(media_files[i].name) = "video") =>
            /\ pipe[i].pc # "failed"
            /\ pipe[i].saved_frames = Len(pipe[i].retained)
            /\ pipe[i].retained # <<>> =>
                  /\ FramesDir(media_files[i].name) \in DOMAIN output_frames
                  /\ \A k \in DOMAIN pipe[i].retained :
                        LET r == pipe[i].retained[k]
                            n == frame_filename(r.start_time, r.end_time)
                            d == output_frames[FramesDir(media_files[i].name)]
                        IN  n \in DOMAIN d

\* the pair of the name that was passed, with ':' replaced by '-'; no match
\* for a name without a pair
ExpectedTimestamps ==
    IF call.kind = "other" THEN NoMatch
    ELSE <<replace_colon(call.start), replace_colon(call.end)>>

\* C23 as the specification states it: for every frame and grid file name
\* generated from a pair (start, end), any frame index, extract_timestamps
\* returns exactly (start, end) with ':' replaced by '-', and None for a name
\* that holds no pair
C23_AsStated ==
    (cmd = "names" /\ call.kind # "none") => result = ExpectedTimestamps

\* the part of C23 that holds: the names of video and image frames and
\* grids, and those of GIF frames of index 99 or less
C23_TwoDigitIndices ==
    (cmd = "names" /\ call.kind # "none") =>
        \/ result = ExpectedTimestamps
        \/ /\ call.kind \in {"gif frame", "gif grid"}
           /\ Len(call.start) > 8
           /\ result = NoMatch

\* <stem>__frames__grids, <stem> the name without its extension: the folder
\* that extract_frames followed by create_grids_from_frames uses
StemGridsDir(name) == GridsDir(FramesDir(name))

\* C24 as the specification states it: for every media file name the
\* streaming generator writes the grids of the file into <stem>__frames__grids,
\* the folder that the extract path produces for that file
C24_AsStated ==
    /\ cmd = "stream" =>
          \A k \in DOMAIN grid_writes :
              grid_writes[k].dir = StemGridsDir(media_files[grid_writes[k].by].name)
    /\ cmd = "extract" =>
          \A k \in DOMAIN grid_writes :
              \E i \in DOMAIN pipe : grid_writes[k].dir = StemGridsDir(media_files[i].name)

\* the part of C24 that holds: the extract path always uses
\* <stem>__frames__grids, and the streaming generator does for a name whose
\* only dot is the one of the extension
C24_SingleDotNames ==
    /\ cmd = "stream" =>
          \A k \in DOMAIN grid_writes :
              LET name == media_files[grid_writes[k].by].name
              IN  /\ grid_writes[k].dir = StreamDir(name)
                  /\ Count(name, ".") = 1 => grid_writes[k].dir = StemGridsDir(name)
    /\ cmd = "extract" =>
          \A k \in DOMAIN grid_writes :
              \E i \in DOMAIN pipe : grid_writes[k].dir = StemGridsDir(media_files[i].name)

\* the API was called n times and only the last call did not end in an
\* exception
FirstAnswerAt(n) ==
    /\ Len(api.responses) = n
    /\ \A k \in 1..(n - 1) : api.responses[k].kind = "exception"
    /\ api.responses[n].kind # "exception"

\* C25: get_openai_labels, given a key and a model, calls the API at most 3
\* times for one prompt; it returns at the first attempt that succeeds; it
\* does not retry a refusal but returns a dict whose 'labels' holds exactly
\* one message starting with 'Warning:'; and after a third consecutive
\* failed attempt it returns a dict whose 'labels' holds exactly one message
\* starting with 'Error:' instead of raising.
C25_Retries ==
    (cmd = "labels" /\ api.pc \notin {"entry", "entry without key"}
        /\ api.responses # <<>>) =>
        /\ Len(api.responses) <= 3
        /\ api.pc # "raised"
        /\ api.pc = "loop" =>
              /\ api.attempt = Len(api.responses) /\ api.attempt < 3
              /\ \A k \in DOMAIN api.responses : api.responses[k].kind = "exception"
        /\ api.pc = "returned" =>
              LET n    == Len(api.responses)
                  last == api.responses[n]
              IN  /\ Len(api.returned) = 1
                  /\ last.kind # "exception" => FirstAnswerAt(n)
                  /\ last.kind = "content" =>
                        (api.returned[1].labels = <<>>) = (last.detail = "no labels")
                  /\ last.kind = "refusal" =>
                        /\ Len(api.returned[1].labels) = 1
                        /\ api.returned[1].labels[1].prefix = "Warning:"
                        /\ api.returned[1].labels[1].detail = last.detail
                  /\ last.kind = "exception" =>
                        /\ n = 3
                        /\ \A k \in 1..3 : api.responses[k].kind = "exception"
                        /\ Len(api.returned[1].labels) = 1
                        /\ api.returned[1].labels[1].prefix = "Error:"
                        /\ api.returned[1].labels[1].detail = last.detail

\* three attempts failed in a row and the error message was returned
C25_Witness ==
    /\ cmd = "labels" /\ api.pc = "returned"
    /\ Len(api.responses) = 3
    /\ api.responses[3].kind = "exception"
    /\ api.returned = one_message("Error:", api.responses[3].detail)
    /\ api.slept = 6

\* an iteration of the sampling loop of pipeline i leaves the loop or
\* strictly advances the frame index
IterationAdvances(i) ==
    (pipe[i].pc \in {"video_loop", "gif_loop"} /\ pipe'[i] # pipe[i]) =>
        \/ pipe'[i].pc # pipe[i].pc
        \/ pipe'[i].frame_index > pipe[i].frame_index

\* C26 as the specification states it: for every frame rate, frame count and
\* sampling interval the decoder reports, each iteration of the video loop
\* strictly advances the frame index or ends the loop, and so does each
\* iteration of the GIF loop
C26_AsStated ==
    [][\A i \in DOMAIN pipe : IterationAdvances(i)]_vars

\* the part of C26 that holds: the GIF loop always advances, and the video
\* loop does when round(fps * SAMPLING_INTERVAL) is 1 or more
C26_AdvancesWhenIntervalPositive ==
    [][\A i \in DOMAIN pipe :
          (get_file_type_from_extension(media_files[i].name) = "video"
              => frame_interval_of(media_files[i].fps) >= 1)
          => IterationAdvances(i)]_vars

\* C27: in the streaming generator with grid dimension N the frame buffer
\* never holds more than N^2 frames: when its length reaches N^2 it is sealed
\* and cleared before the next candidate is read, so between loop iterations
\* its length is in 0..N^2-1, and it is empty when
\* generate_grids_from_media_stream returns normally.
C27_BufferBounded ==
    cmd = "stream" =>
        \A i \in DOMAIN pipe :
            /\ Len(pipe[i].collected) <= frames_per_grid
            /\ pipe[i].pc \in {"video_loop", "gif_loop", "loop_exit"} =>
                  Len(pipe[i].collected) <= frames_per_grid - 1
            /\ pipe[i].pc = "done" => pipe[i].collected = <<>>
            /\ Len(pipe[i].collected) = frames_per_grid => pipe[i].pc = "failed"

\* with N = MaxGridDim a full buffer was sealed and cleared, and the loop
\* goes on with a buffer that holds frames again
C27_Witness ==
    /\ cmd = "stream" /\ grid_dimension = MaxGridDim
    /\ \E i \in DOMAIN pipe :
          /\ pipe[i].pc \in {"video_loop", "gif_loop", "loop_exit"}
          /\ Len(pipe[i].saved_grids) >= 1
          /\ pipe[i].saved_grids[1].num_images = frames_per_grid
          /\ Len(pipe[i].collected) >= 1

\* the member counts of the grids saved by writer by, in the order of saving
MemberCounts(by) ==
    LET W == SelectSeq(grid_writes, LAMBDA w : w.by = by)
    IN  [k \in 1..Len(W) |-> Len(W[k].canvas.pastes)]

\* the file has been taken through extract_frames and
\* create_grids_from_frames, and then through the streaming generator, which
\* has returned
BothPathsDone ==
    /\ cmd = "stream"
    /\ DOMAIN pipe # {}
    /\ \A i \in DOMAIN pipe : reported[i] # "none" /\ pipe[i].pc = "done"

\* C28 as the specification states it: for the same readable media file,
\* threshold, static flag and grid dimension, from empty output directories
\* and without write failures, the streaming generator produces as many
\* grids, with the same member counts in the same order, as extract_frames
\* followed by create_grids_from_frames
C28_AsStated ==
    BothPathsDone => MemberCounts(1) = MemberCounts(0)

\* the part of C28 that holds: the two paths agree unless a frame of index
\* 100 or more of a GIF is retained
C28_AgreeBelowIndex100 ==
    BothPathsDone =>
        \/ MemberCounts(1) = MemberCounts(0)
        \/ /\ get_file_type_from_extension(media_files[1].name) = "gif"
           /\ \E k \in DOMAIN pipe[1].retained : pipe[1].retained[k].image.id >= 100
           /\ Len(MemberCounts(0)) < Len(MemberCounts(1))

\* C29 as the specification states it: when the input directory is not
\* empty but holds no file with a supported media extension,
\* main_extract_frames and main_generate_grids_from_media process no file
\* and finish without raising
C29_AsStated ==
    (/\ cmd \in {"extract", "stream"}
     /\ listing # <<>>
     /\ get_valid_media_files(listing).none
     /\ ~SSIM_THRESHOLDS_getitem(similarity).raised
     /\ phase # "entry")
        => phase # "raised" /\ error = "none"

\* the part of C29 that holds: no per-file pipeline is started and nothing
\* is written for such a directory
C29_NothingProcessed ==
    (listing # <<>> /\ get_valid_media_files(listing).none)
        => DOMAIN pipe = {} /\ grid_writes = <<>> /\ folders = <<>>

\* the sum of the frame counts of the GIF files of a directory
RECURSIVE GifFramesOf(_)
GifFramesOf(dir) ==
    IF dir = <<>> THEN 0
    ELSE (IF splitext(lower(dir[1].name))[2] = <<".", "g", "i", "f">>
          THEN dir[1].frame_count ELSE 0) + GifFramesOf(Tail(dir))

\* C30 as the specification states it: the total GIF frame count that
\* estimate_processing_cost uses is the sum of the frame counts of the GIF
\* files of the input directory, whatever else the directory holds and in
\* whatever order it is listed
C30_AsStated ==
    (cmd = "cost" /\ call.pc = "counted")
        => call.total_gif_frames = GifFramesOf(listing)

\* what the loop computes instead: the frame count of the one file that
\* file_path names after the earlier loops, once per GIF of the directory
C30_StalePathCounted ==
    (cmd = "cost" /\ call.pc = "counted")
        => /\ call.total_gif_frames =
                  Len(call.gif_filepaths)
                      * count_gif_frames(call.file_path, listing, call.cwd_is_input_dir)
           /\ call.video_filepaths # <<>> => call.total_gif_frames = 0
           /\ ~call.cwd_is_input_dir => call.total_gif_frames = 0

====
